---- MODULE Spec2Model ----
(***************************************************************************)
(* Model of the tool-calling core of zeroclaw:                             *)
(*   src/src/agent/tool_calls.rs  parse_tool_calls, extract_single_call,   *)
(*                                parse_bracketed_tool_calls,              *)
(*                                execute_tool_call, format_tool_result    *)
(*   src/src/agent/loop_.rs       handle_response_with_tools               *)
(*                                                                         *)
(* A Rust String is modelled as the sequence of its UTF-8 bytes, each byte *)
(* a one-character TLA+ string.  The two bytes of a two-byte character are *)
(* written "E1" (lead byte) and "E2" (continuation byte), and the byte of  *)
(* the grave accent that makes a code fence is written "BACKTICK".  Byte   *)
(* offsets are 0-based as in Rust; TLA+ sequences are 1-based.             *)
(***************************************************************************)
EXTENDS Integers, Sequences, FiniteSets, TLC

\* ------------------------------------------------------------------------
\* Option<T>
\* ------------------------------------------------------------------------
None == [some |-> FALSE]

Some(x) == [some |-> TRUE, v |-> x]

\* a.or(b)
OrOpt(a, b) == IF a.some THEN a ELSE b

SetMin(S) == CHOOSE x \in S : \A y \in S : x <= y

\* ------------------------------------------------------------------------
\* str: bytes, char boundaries, slicing, find, trim
\* ------------------------------------------------------------------------
\* The continuation byte of the two-byte character.
IsContinuationByte(b) == b = "E2"

\* str::is_char_boundary
IsCharBoundary(s, i) ==
    \/ i = 0
    \/ i = Len(s)
    \/ (0 < i /\ i < Len(s) /\ ~IsContinuationByte(s[i + 1]))

\* &s[a..] is defined (does not panic)
SliceFromOk(s, a) == a <= Len(s) /\ IsCharBoundary(s, a)

\* &s[a..]
SliceFrom(s, a) == SubSeq(s, a + 1, Len(s))

\* &s[a..b] is defined (does not panic)
SliceOk(s, a, b) ==
    a <= b /\ b <= Len(s) /\ IsCharBoundary(s, a) /\ IsCharBoundary(s, b)

\* &s[a..b]
Slice(s, a, b) == SubSeq(s, a + 1, b)

\* str::find(pattern): byte offset of the first occurrence
Find(hay, needle) ==
    LET hits == {i \in 0..(Len(hay) - Len(needle)) :
                    \A j \in 1..Len(needle) : hay[i + j] = needle[j]}
    IN  IF hits = {} THEN None ELSE Some(SetMin(hits))

IsSpace(b) == b \in {" ", "\n", "\t", "\r"}

\* str::trim
Trim(s) ==
    LET keep == {i \in 1..Len(s) : ~IsSpace(s[i])}
    IN  IF keep = {} THEN <<>>
        ELSE SubSeq(s, SetMin(keep), CHOOSE i \in keep : \A j \in keep : j <= i)

\* ------------------------------------------------------------------------
\* serde_json::Value
\* ------------------------------------------------------------------------
Null == [t |-> "null"]

Bool(b) == [t |-> "bool", b |-> b]

Number(digits) == [t |-> "num", n |-> digits]

String(bytes) == [t |-> "str", s |-> bytes]

Array(elems) == [t |-> "arr", a |-> elems]

Object(map) == [t |-> "obj", m |-> map]

NoFields == [k \in {} |-> Null]

\* Value::Object(Default::default())
EmptyObject == Object(NoFields)

\* Map::insert: a repeated key keeps the later value
Insert(map, key, val) == (key :> val) @@ map

\* Value::get(key) with a string key: None unless an object holding the key
Get(value, key) ==
    IF value.t = "obj" /\ key \in DOMAIN value.m THEN Some(value.m[key]) ELSE None

\* Value::as_str
AsStr(value) == IF value.t = "str" THEN Some(value.s) ELSE None

\* Value::as_array
AsArray(value) == IF value.t = "arr" THEN Some(value.a) ELSE None

\* ------------------------------------------------------------------------
\* serde_json::from_str::<Value>: a recursive-descent JSON reader over the
\* bytes.  Modelled: whitespace, null/true/false, unsigned integers, strings
\* without escapes, arrays and objects; a backslash or a raw control byte
\* inside a string is an error, as is any trailing non-whitespace.
\* ------------------------------------------------------------------------
Digits == {"0", "1", "2", "3", "4", "5", "6", "7", "8", "9"}

ParseFail == [ok |-> FALSE, v |-> Null, p |-> 0]

ParseOk(v, p) == [ok |-> TRUE, v |-> v, p |-> p]

RECURSIVE SkipWs(_, _)
SkipWs(s, p) == IF p <= Len(s) /\ IsSpace(s[p]) THEN SkipWs(s, p + 1) ELSE p

RECURSIVE RunEnd(_, _, _)
\* first position >= p whose byte is not in set
RunEnd(s, p, set) == IF p <= Len(s) /\ s[p] \in set THEN RunEnd(s, p + 1, set) ELSE p

\* the literal lit at position p
HasLiteral(s, p, lit) ==
    p + Len(lit) - 1 <= Len(s) /\ \A j \in 1..Len(lit) : s[p + j - 1] = lit[j]

\* p is just after the opening quote
ParseJsonString(s, p) ==
    LET ends == {i \in p..Len(s) : s[i] = "\""}
    IN  IF ends = {} THEN ParseFail
        ELSE LET e == SetMin(ends)
             IN  IF \E i \in p..(e - 1) : s[i] \in {"\\", "\n", "\t", "\r"}
                 THEN ParseFail
                 ELSE ParseOk(String(SubSeq(s, p, e - 1)), e + 1)

ParseJsonNumber(s, p) ==
    LET e == RunEnd(s, p, Digits)
    IN  IF s[p] = "0" /\ e > p + 1 THEN ParseFail
        ELSE ParseOk(Number(SubSeq(s, p, e - 1)), e)

RECURSIVE ParseJsonValue(_, _)
RECURSIVE ParseJsonMembers(_, _, _)
RECURSIVE ParseJsonElements(_, _, _)

\* p is at the start of a member "key": value
ParseJsonMembers(s, p, map) ==
    LET q == SkipWs(s, p)
    IN  IF q > Len(s) \/ s[q] # "\"" THEN ParseFail
        ELSE LET key == ParseJsonString(s, q + 1)
             IN  IF ~key.ok THEN ParseFail
                 ELSE LET c == SkipWs(s, key.p)
                      IN  IF c > Len(s) \/ s[c] # ":" THEN ParseFail
                          ELSE LET val == ParseJsonValue(s, c + 1)
                               IN  IF ~val.ok THEN ParseFail
                                   ELSE LET t  == SkipWs(s, val.p)
                                            m2 == Insert(map, key.v.s, val.v)
                                        IN  IF t > Len(s) THEN ParseFail
                                            ELSE IF s[t] = "," THEN ParseJsonMembers(s, t + 1, m2)
                                            ELSE IF s[t] = "}" THEN ParseOk(Object(m2), t + 1)
                                            ELSE ParseFail

\* p is at the start of an element
ParseJsonElements(s, p, elems) ==
    LET val == ParseJsonValue(s, p)
    IN  IF ~val.ok THEN ParseFail
        ELSE LET t  == SkipWs(s, val.p)
                 e2 == Append(elems, val.v)
             IN  IF t > Len(s) THEN ParseFail
                 ELSE IF s[t] = "," THEN ParseJsonElements(s, t + 1, e2)
                 ELSE IF s[t] = "]" THEN ParseOk(Array(e2), t + 1)
                 ELSE ParseFail

ParseJsonValue(s, p) ==
    LET q == SkipWs(s, p)
    IN  IF q > Len(s) THEN ParseFail
        ELSE IF s[q] = "{" THEN
            LET r == SkipWs(s, q + 1)
            IN  IF r <= Len(s) /\ s[r] = "}" THEN ParseOk(EmptyObject, r + 1)
                ELSE ParseJsonMembers(s, q + 1, NoFields)
        ELSE IF s[q] = "[" THEN
            LET r == SkipWs(s, q + 1)
            IN  IF r <= Len(s) /\ s[r] = "]" THEN ParseOk(Array(<<>>), r + 1)
                ELSE ParseJsonElements(s, q + 1, <<>>)
        ELSE IF s[q] = "\"" THEN ParseJsonString(s, q + 1)
        ELSE IF s[q] \in Digits THEN ParseJsonNumber(s, q)
        ELSE IF HasLiteral(s, q, <<"n","u","l","l">>) THEN ParseOk(Null, q + 4)
        ELSE IF HasLiteral(s, q, <<"t","r","u","e">>) THEN ParseOk(Bool(TRUE), q + 4)
        ELSE IF HasLiteral(s, q, <<"f","a","l","s","e">>) THEN ParseOk(Bool(FALSE), q + 5)
        ELSE ParseFail

\* serde_json::from_str::<Value>(s): Ok(value) only when the whole of s is
\* one value (surrounding whitespace allowed)
from_str(s) ==
    LET r == ParseJsonValue(s, 1)
    IN  IF r.ok /\ SkipWs(s, r.p) > Len(s) THEN Some(r.v) ELSE None

\* ------------------------------------------------------------------------
\* Field names and text fragments used by the code
\* ------------------------------------------------------------------------
K_function == <<"f","u","n","c","t","i","o","n">>

K_name == <<"n","a","m","e">>

K_arguments == <<"a","r","g","u","m","e","n","t","s">>

K_type == <<"t","y","p","e">>

K_tool_use == <<"t","o","o","l","_","u","s","e">>

K_input == <<"i","n","p","u","t">>

K_tool == <<"t","o","o","l">>

K_args == <<"a","r","g","s">>

K_params == <<"p","a","r","a","m","s">>

\* the tool_calls fence label
FenceToolCalls == <<"BACKTICK","BACKTICK","BACKTICK","t","o","o","l","_","c","a","l","l","s">>

\* the json fence label
FenceJson == <<"BACKTICK","BACKTICK","BACKTICK","j","s","o","n">>

\* the bare fence
Fence == <<"BACKTICK","BACKTICK","BACKTICK">>

\* ------------------------------------------------------------------------
\* struct ToolCall { name, arguments }
\* ------------------------------------------------------------------------
ToolCall(name, arguments) == [name |-> name, arguments |-> arguments]

\* Faulty variant of extract_single_call: the tool_use branch reads the arguments
\* from "arguments" instead of "input".
extract_single_call_wrong_field(value) ==
    IF Get(value, K_function).some THEN
        LET function == Get(value, K_function).v
            name     == Get(function, K_name)
        IN  IF ~name.some THEN None
            ELSE IF ~AsStr(name.v).some THEN None
            ELSE Some(ToolCall(AsStr(name.v).v,
                               IF Get(function, K_arguments).some
                               THEN Get(function, K_arguments).v
                               ELSE EmptyObject))
    ELSE IF Get(value, K_type).some
            /\ AsStr(Get(value, K_type).v) = Some(K_tool_use) THEN
        LET name == Get(value, K_name)
        IN  IF ~name.some THEN None
            ELSE IF ~AsStr(name.v).some THEN None
            ELSE Some(ToolCall(AsStr(name.v).v,
                               IF Get(value, K_arguments).some
                               THEN Get(value, K_arguments).v
                               ELSE EmptyObject))
    ELSE
        LET field == OrOpt(Get(value, K_name), Get(value, K_tool))
            name  == IF field.some THEN AsStr(field.v) ELSE None
        IN  IF name.some THEN
                Some(ToolCall(name.v,
                     LET a == OrOpt(OrOpt(OrOpt(Get(value, K_arguments),
                                                Get(value, K_args)),
                                          Get(value, K_input)),
                                    Get(value, K_params))
                     IN  IF a.some THEN a.v ELSE EmptyObject))
            ELSE None

\* Faulty variant of extract_single_call: the generic branch reads "tool"
\* before "name" and "params" before the other argument fields.
extract_single_call_reversed_priority(value) ==
    IF Get(value, K_function).some THEN
        LET function == Get(value, K_function).v
            name     == Get(function, K_name)
        IN  IF ~name.some THEN None
            ELSE IF ~AsStr(name.v).some THEN None
            ELSE Some(ToolCall(AsStr(name.v).v,
                               IF Get(function, K_arguments).some
                               THEN Get(function, K_arguments).v
                               ELSE EmptyObject))
    ELSE IF Get(value, K_type).some
            /\ AsStr(Get(value, K_type).v) = Some(K_tool_use) THEN
        LET name == Get(value, K_name)
        IN  IF ~name.some THEN None
            ELSE IF ~AsStr(name.v).some THEN None
            ELSE Some(ToolCall(AsStr(name.v).v,
                               IF Get(value, K_input).some
                               THEN Get(value, K_input).v
                               ELSE EmptyObject))
    ELSE
        LET field == OrOpt(Get(value, K_tool), Get(value, K_name))
            name  == IF field.some THEN AsStr(field.v) ELSE None
        IN  IF name.some THEN
                Some(ToolCall(name.v,
                     LET a == OrOpt(OrOpt(OrOpt(Get(value, K_params),
                                                Get(value, K_input)),
                                          Get(value, K_args)),
                                    Get(value, K_arguments))
                     IN  IF a.some THEN a.v ELSE EmptyObject))
            ELSE None

\* fn extract_single_call(value: &Value) -> Option<ToolCall>
extract_single_call(value) ==
    IF Get(value, K_function).some THEN
        LET function == Get(value, K_function).v
            name     == Get(function, K_name)
        IN  IF ~name.some THEN None
            ELSE IF ~AsStr(name.v).some THEN None
            ELSE Some(ToolCall(AsStr(name.v).v,
                               IF Get(function, K_arguments).some
                               THEN Get(function, K_arguments).v
                               ELSE EmptyObject))
    ELSE IF Get(value, K_type).some
            /\ AsStr(Get(value, K_type).v) = Some(K_tool_use) THEN
        LET name == Get(value, K_name)
        IN  IF ~name.some THEN None
            ELSE IF ~AsStr(name.v).some THEN None
            ELSE Some(ToolCall(AsStr(name.v).v,
                               IF Get(value, K_input).some
                               THEN Get(value, K_input).v
                               ELSE EmptyObject))
    ELSE
        LET field == OrOpt(Get(value, K_name), Get(value, K_tool))
            name  == IF field.some THEN AsStr(field.v) ELSE None
        IN  IF name.some THEN
                Some(ToolCall(name.v,
                     LET a == OrOpt(OrOpt(OrOpt(Get(value, K_arguments),
                                                Get(value, K_args)),
                                          Get(value, K_input)),
                                    Get(value, K_params))
                     IN  IF a.some THEN a.v ELSE EmptyObject))
            ELSE None

RECURSIVE CollectCalls(_, _)
\* the for loop of extract_calls_from_value: push every Some(call)
CollectCalls(items, i) ==
    IF i > Len(items) THEN <<>>
    ELSE LET c == extract_single_call(items[i])
         IN  (IF c.some THEN <<c.v>> ELSE <<>>) \o CollectCalls(items, i + 1)

\* fn extract_calls_from_value(value: &Value) -> Vec<ToolCall>
extract_calls_from_value(value) ==
    IF AsArray(value).some THEN CollectCalls(AsArray(value).v, 1)
    ELSE LET c == extract_single_call(value)
         IN  IF c.some THEN <<c.v>> ELSE <<>>

\* ------------------------------------------------------------------------
\* The regex of parse_bracketed_tool_calls,
\*   (\w+)\s*\((\{.*?\})\)|(\w+)\s*\((\[.*?\])\)|(\w+)\s*\(([^)]+)\)
\* with the regex crate's leftmost-first semantics.  A match is the six
\* capture groups (each an Option of bytes) and the offset where it ends.
\* ------------------------------------------------------------------------
WordBytes ==
    {"a","b","c","d","e","f","g","h","i","j","k","l","m","n","o","p","q","r",
     "s","t","u","v","w","x","y","z","A","B","C","D","E","F","G","H","I","J",
     "K","L","M","N","O","P","Q","R","S","T","U","V","W","X","Y","Z","_",
     "E1","E2"} \cup Digits

NoMatch == [some |-> FALSE]

Match(groups, end) == [some |-> TRUE, g |-> groups, end |-> end]

\* The lazy  open .*? close \)  part: p is the 1-based position of the byte
\* after "(" ; the group runs from p to the first  close")"  with no newline
\* between.
LazyGroupEnd(s, p, open, close) ==
    IF p > Len(s) \/ s[p] # open THEN 0
    ELSE LET ends == {e \in (p + 1)..(Len(s) - 1) :
                         /\ s[e] = close
                         /\ s[e + 1] = ")"
                         /\ \A k \in (p + 1)..(e - 1) : s[k] # "\n"}
         IN  IF ends = {} THEN 0 ELSE SetMin(ends)

\* The greedy  [^)]+ \)  part: the group runs from p up to the first ")".
GreedyGroupEnd(s, p) ==
    IF p > Len(s) \/ s[p] = ")" THEN 0
    ELSE LET closes == {e \in (p + 1)..Len(s) : s[e] = ")"}
         IN  IF closes = {} THEN 0 ELSE SetMin(closes) - 1

\* The match starting at 1-based position i, alternatives tried in order.
MatchAt(s, i) ==
    IF i > Len(s) \/ s[i] \notin WordBytes THEN NoMatch
    ELSE LET w    == RunEnd(s, i, WordBytes)
             par  == SkipWs(s, w)
             name == Some(SubSeq(s, i, w - 1))
         IN  IF par > Len(s) \/ s[par] # "(" THEN NoMatch
             ELSE LET e1 == LazyGroupEnd(s, par + 1, "{", "}")
                      e2 == LazyGroupEnd(s, par + 1, "[", "]")
                      e3 == GreedyGroupEnd(s, par + 1)
                  IN  IF e1 # 0 THEN
                          Match(<<name, Some(SubSeq(s, par + 1, e1)),
                                  None, None, None, None>>, e1 + 1)
                      ELSE IF e2 # 0 THEN
                          Match(<<None, None, name,
                                  Some(SubSeq(s, par + 1, e2)), None, None>>, e2 + 1)
                      ELSE IF e3 # 0 THEN
                          Match(<<None, None, None, None, name,
                                  Some(SubSeq(s, par + 1, e3))>>, e3 + 1)
                      ELSE NoMatch

RECURSIVE captures_iter(_, _)
\* Regex::captures_iter: the successive non-overlapping leftmost matches,
\* searching from 1-based position from
captures_iter(s, from) ==
    LET starts == {i \in from..Len(s) : MatchAt(s, i).some}
    IN  IF starts = {} THEN <<>>
        ELSE LET m == MatchAt(s, SetMin(starts))
             IN  <<m.g>> \o captures_iter(s, m.end + 1)

\* if let Ok(arguments) = serde_json::from_str(args_str) { calls.push(..) }
PushIfParsed(calls, name, arguments) ==
    IF arguments.some THEN Append(calls, ToolCall(name, arguments.v)) ELSE calls

RECURSIVE BracketedLoop(_, _, _)
\* the for loop of parse_bracketed_tool_calls; each ? returns None from
\* the function
BracketedLoop(caps, i, calls) ==
    IF i > Len(caps) THEN Some(calls)
    ELSE LET name == OrOpt(OrOpt(caps[i][1], caps[i][3]), caps[i][4])
             args == OrOpt(OrOpt(caps[i][2], caps[i][5]), caps[i][6])
         IN  IF ~name.some THEN None
             ELSE IF ~args.some THEN None
             ELSE BracketedLoop(caps, i + 1,
                                PushIfParsed(calls, name.v, from_str(args.v)))

\* the end of parse_bracketed_tool_calls: if calls.is_empty() { None }
\* else { Some(calls) }; r is None when a ? already returned None
NoneIfEmpty(r) ==
    IF ~r.some THEN None
    ELSE IF r.v = <<>> THEN None
    ELSE r

\* fn parse_bracketed_tool_calls(response: &str) -> Option<Vec<ToolCall>>
parse_bracketed_tool_calls(response) ==
    NoneIfEmpty(BracketedLoop(captures_iter(response, 1), 1, <<>>))

\* ------------------------------------------------------------------------
\* fn parse_tool_calls(response: &str) -> Vec<ToolCall>
\* The outcome is the returned Vec, or a panic of a str slice.
\* ------------------------------------------------------------------------
Panicked == [panic |-> TRUE, calls |-> <<>>]

Returned(calls) == [panic |-> FALSE, calls |-> calls]

\* if let Ok(value) = serde_json::from_str(..) { calls.extend(
\* extract_calls_from_value(&value)) }: the calls added
CallsIfParsed(value) ==
    IF value.some THEN extract_calls_from_value(value.v) ELSE <<>>

RECURSIVE FencedStrategy_later_blocks(_, _, _)
\* Faulty variant of FencedStrategy: when the first block yields no call the
\* search goes on with the next occurrence of the label.
FencedStrategy_later_blocks(response, label, skip) ==
    LET found == Find(response, label)
    IN  IF ~found.some THEN Returned(<<>>)
        ELSE
        LET json_start    == found.v
            nl_pos        == Find(SliceFrom(response, json_start), <<"\n">>)
            after_opening == IF nl_pos.some THEN json_start + nl_pos.v + 1
                             ELSE json_start + skip
            rest          == SliceFrom(response, json_start + Len(label))
        IN  IF ~SliceFromOk(response, after_opening) THEN Panicked
            ELSE
            LET json_end == Find(SliceFrom(response, after_opening), Fence)
            IN  IF ~json_end.some THEN Returned(<<>>)
                ELSE
                LET json_str == Slice(response, after_opening,
                                      after_opening + json_end.v)
                    calls    == CallsIfParsed(from_str(Trim(json_str)))
                IN  IF calls # <<>> THEN Returned(calls)
                    ELSE FencedStrategy_later_blocks(rest, label, skip)

\* One fenced strategy (lines 28-43 with label the tool_calls fence label and skip 14,
\* lines 47-62 with label the json fence label and skip 7): the calls it extends
\* calls by.
FencedStrategy(response, label, skip) ==
    LET found == Find(response, label)
    IN  IF ~found.some THEN Returned(<<>>)
        ELSE
        LET json_start    == found.v
            nl_pos        == Find(SliceFrom(response, json_start), <<"\n">>)
            after_opening == IF nl_pos.some THEN json_start + nl_pos.v + 1
                             ELSE json_start + skip
        IN  IF ~SliceFromOk(response, after_opening) THEN Panicked
            ELSE
            LET json_end == Find(SliceFrom(response, after_opening), Fence)
            IN  IF ~json_end.some THEN Returned(<<>>)
                ELSE
                LET json_str == Slice(response, after_opening,
                                      after_opening + json_end.v)
                IN  Returned(CallsIfParsed(from_str(Trim(json_str))))

\* "Try to parse as direct JSON" (lines 66-70)
DirectStrategy(response) == CallsIfParsed(from_str(Trim(response)))

\* if let Some(calls_found) = .. { calls = calls_found }, with calls empty
CallsIfFound(calls_found) == IF calls_found.some THEN calls_found.v ELSE <<>>

\* "Try to find tool calls in format: <tool_name>({...})" (lines 73-77)
BracketedStrategy(response) ==
    CallsIfFound(parse_bracketed_tool_calls(response))

\* lines 72-79, calls being what the direct strategy left
AfterDirect(response, calls) ==
    IF calls # <<>> THEN Returned(calls)
    ELSE Returned(BracketedStrategy(response))

\* lines 65-79, s2 being the outcome of the json fence strategy
AfterJsonFence(response, s2) ==
    IF s2.panic THEN Panicked
    ELSE IF s2.calls # <<>> THEN Returned(s2.calls)
    ELSE AfterDirect(response, DirectStrategy(response))

\* lines 45-79, s1 being the outcome of the tool_calls fence strategy
AfterToolCallsFence(response, s1) ==
    IF s1.panic THEN Panicked
    ELSE IF s1.calls # <<>> THEN Returned(s1.calls)
    ELSE AfterJsonFence(response, FencedStrategy(response, FenceJson, 7))

\* Faulty variant of parse_tool_calls: the inline strategy runs without the
\* calls.is_empty() guard, so its calls replace those of a fenced block.
Unguarded(r, s4) == IF r.panic \/ ~s4.some THEN r ELSE Returned(s4.v)

parse_tool_calls_unguarded(response) ==
    Unguarded(AfterToolCallsFence(response,
                                  FencedStrategy(response, FenceToolCalls, 14)),
              parse_bracketed_tool_calls(response))

parse_tool_calls(response) ==
    AfterToolCallsFence(response, FencedStrategy(response, FenceToolCalls, 14))

\* ------------------------------------------------------------------------
\* crate::tools::ToolResult { success, output, error: Option<String> } and
\* the Result of Tool::execute
\* ------------------------------------------------------------------------
ToolResult(success, output, error) ==
    [success |-> success, output |-> output, error |-> error]

Ok(x) == [ok |-> TRUE, v |-> x]

Err(e) == [ok |-> FALSE, e |-> e]

\* "Tool '"
TxtToolQuote == <<"T","o","o","l"," ","'">>

\* "' not found"
TxtNotFound == <<"'"," ","n","o","t"," ","f","o","u","n","d">>

\* "Tool execution failed: "
TxtExecFailed ==
    <<"T","o","o","l"," ","e","x","e","c","u","t","i","o","n"," ",
      "f","a","i","l","e","d",":"," ">>

\* Faulty variant of FindTool: the last tool of that name is taken.
FindTool_last_match(registry, name) ==
    LET hits == {i \in 1..Len(registry) : registry[i] = name}
    IN  IF hits = {} THEN 0 ELSE CHOOSE i \in hits : \A j \in hits : j <= i

\* tools.iter().find(|t| t.name() == tool_call.name): the position of the
\* first tool of that name, 0 when there is none
FindTool(registry, name) ==
    LET hits == {i \in 1..Len(registry) : registry[i] = name}
    IN  IF hits = {} THEN 0 ELSE SetMin(hits)

\* ASCII lower case of the letters the registries use
LowerByte(b) == IF b = "A" THEN "a" ELSE IF b = "B" THEN "b" ELSE b

LowerCase(name) == [i \in 1..Len(name) |-> LowerByte(name[i])]

\* Faulty variant of execute_tool_call: the lookup ignores case.
execute_tool_call_ignore_case(tool_call, registry, outcome) ==
    LET hits == {i \in 1..Len(registry) :
                    LowerCase(registry[i]) = LowerCase(tool_call.name)}
        tool == IF hits = {} THEN 0 ELSE SetMin(hits)
    IN  IF tool = 0 THEN
            [result  |-> ToolResult(FALSE, <<>>,
                            Some(TxtToolQuote \o tool_call.name \o TxtNotFound)),
             invoked |-> 0,
             passed  |-> None]
        ELSE
            [result  |-> IF outcome.ok THEN outcome.v
                         ELSE ToolResult(FALSE, <<>>, Some(TxtExecFailed \o outcome.e)),
             invoked |-> tool,
             passed  |-> Some(tool_call.arguments)]

\* Faulty variant of execute_tool_call: a result the tool returns is rebuilt with
\* its error dropped instead of being passed through.
execute_tool_call_rebuilt(tool_call, registry, outcome) ==
    LET tool == FindTool(registry, tool_call.name)
    IN  IF tool = 0 THEN
            [result  |-> ToolResult(FALSE, <<>>,
                            Some(TxtToolQuote \o tool_call.name \o TxtNotFound)),
             invoked |-> 0,
             passed  |-> None]
        ELSE
            [result  |-> IF outcome.ok
                         THEN ToolResult(outcome.v.success, outcome.v.output, None)
                         ELSE ToolResult(FALSE, <<>>, Some(TxtExecFailed \o outcome.e)),
             invoked |-> tool,
             passed  |-> Some(tool_call.arguments)]

\* Faulty variant of execute_tool_call: a failure of the tool's execute is
\* reported with success set.
execute_tool_call_failure_as_success(tool_call, registry, outcome) ==
    LET tool == FindTool(registry, tool_call.name)
    IN  IF tool = 0 THEN
            [result  |-> ToolResult(FALSE, <<>>,
                            Some(TxtToolQuote \o tool_call.name \o TxtNotFound)),
             invoked |-> 0,
             passed  |-> None]
        ELSE
            [result  |-> IF outcome.ok THEN outcome.v
                         ELSE ToolResult(TRUE, <<>>, Some(TxtExecFailed \o outcome.e)),
             invoked |-> tool,
             passed  |-> Some(tool_call.arguments)]

\* async fn execute_tool_call(tool_call, tools) -> ToolResult
\* registry: the names of the tools, in order; outcome: what the execute of
\* the tool that was found returns.  invoked is the position of the tool
\* whose execute was called (0: none), passed the arguments it was given.
execute_tool_call(tool_call, registry, outcome) ==
    LET tool == FindTool(registry, tool_call.name)
    IN  IF tool = 0 THEN
            [result  |-> ToolResult(FALSE, <<>>,
                            Some(TxtToolQuote \o tool_call.name \o TxtNotFound)),
             invoked |-> 0,
             passed  |-> None]
        ELSE
            [result  |-> IF outcome.ok THEN outcome.v
                         ELSE ToolResult(FALSE, <<>>, Some(TxtExecFailed \o outcome.e)),
             invoked |-> tool,
             passed  |-> Some(tool_call.arguments)]

\* "Tool "
TxtTool == <<"T","o","o","l"," ">>

\* " completed successfully:\nOutput: "
TxtCompleted ==
    <<" ","c","o","m","p","l","e","t","e","d"," ","s","u","c","c","e","s","s",
      "f","u","l","l","y",":","\n","O","u","t","p","u","t",":"," ">>

\* " failed:\nError: "
TxtFailed == <<" ","f","a","i","l","e","d",":","\n","E","r","r","o","r",":"," ">>

\* "Unknown error"
TxtUnknownError == <<"U","n","k","n","o","w","n"," ","e","r","r","o","r">>

\* Faulty variant of format_tool_result: an absent error is rendered as the empty
\* string.
format_tool_result_no_default(call, result) ==
    IF result.success
    THEN TxtTool \o call.name \o TxtCompleted \o result.output
    ELSE TxtTool \o call.name \o TxtFailed
         \o (IF result.error.some THEN result.error.v ELSE <<>>)

\* fn format_tool_result(call: &ToolCall, result: &ToolResult) -> String
format_tool_result(call, result) ==
    IF result.success
    THEN TxtTool \o call.name \o TxtCompleted \o result.output
    ELSE TxtTool \o call.name \o TxtFailed
         \o (IF result.error.some THEN result.error.v ELSE TxtUnknownError)

\* ------------------------------------------------------------------------
\* State
\* ------------------------------------------------------------------------
VARIABLES
    stage,            \* unit harness: "input" before the call, "done" after
    arg,              \* unit harness: the argument of the function under check
    ret,              \* unit harness: what the function returned
    pc,               \* handle_response_with_tools: where the run is
    tools,            \* the registry: the tool names, in order
    message,          \* the message parameter (the original first message)
    current_message,  \* loop_.rs:45
    iteration,        \* loop_.rs:46
    full_response,    \* loop_.rs:47
    response,         \* the Result of the latest chat_with_system call
    tool_calls,       \* loop_.rs:60
    tool_results,     \* loop_.rs:70
    next_call,        \* position in tool_calls of the for loop at loop_.rs:72
    model_calls,      \* number of chat_with_system calls issued
    exec_count,       \* number of Tool::execute calls made
    retval,           \* what handle_response_with_tools returned
    every_response_had_calls, \* history: every response so far parsed to calls
    executed          \* history: the latest execute_tool_call (loop_.rs:74)

harnessVars == <<stage, arg, ret>>

loopVars == <<pc, tools, message, current_message, iteration, full_response,
              response, tool_calls, tool_results, next_call, model_calls,
              exec_count, retval, every_response_had_calls, executed>>

vars == <<stage, arg, ret, pc, tools, message, current_message, iteration,
          full_response, response, tool_calls, tool_results, next_call,
          model_calls, exec_count, retval, every_response_had_calls, executed>>

\* the orchestration is not running (unit harness specifications)
LoopIdle ==
    /\ pc = "idle"
    /\ tools = <<>>
    /\ message = <<>>
    /\ current_message = <<>>
    /\ iteration = 0
    /\ full_response = <<>>
    /\ response = None
    /\ tool_calls = <<>>
    /\ tool_results = <<>>
    /\ next_call = 0
    /\ model_calls = 0
    /\ exec_count = 0
    /\ retval = None
    /\ every_response_had_calls = TRUE
    /\ executed = None

\* ------------------------------------------------------------------------
\* parse_tool_calls on bounded inputs: every concatenation of at most
\* MaxSegs segments
\* ------------------------------------------------------------------------
MaxSegs == 4

\* "\n" {"name":"a"} "\n"
SegObject == <<"\n","{","\"","n","a","m","e","\"",":","\"","a","\"","}","\n">>

\* [{"tool":"b"}]
SegArray == <<"[","{","\"","t","o","o","l","\"",":","\"","b","\"","}","]">>

\* c({})
SegInline == <<"c","(","{","}",")">>

\* the two-byte character
SegWide == <<"E1","E2">>

Segments ==
    {FenceToolCalls, FenceJson, Fence, <<"\n">>, SegObject, SegArray,
     SegInline, SegWide}

RECURSIVE Concat(_)
Concat(parts) == IF parts = <<>> THEN <<>> ELSE Head(parts) \o Concat(Tail(parts))

ResponseInputs ==
    {Concat(parts) : parts \in UNION {[1..k -> Segments] : k \in 0..MaxSegs}}

InitParse ==
    /\ stage = "input"
    /\ arg \in ResponseInputs
    /\ ret = Returned(<<>>)
    /\ LoopIdle

CallParse ==
    /\ stage = "input"
    /\ stage' = "done"
    /\ ret' = parse_tool_calls(arg)
    /\ UNCHANGED <<arg, loopVars>>

NextParse == CallParse

SpecParse == InitParse /\ [][NextParse]_vars

\* ------------------------------------------------------------------------
\* parse_tool_calls on responses without fences: every concatenation of at
\* most MaxParts pieces
\* ------------------------------------------------------------------------
MaxParts == 3

\* a({}): identifier and brace-delimited object
PieceBrace == <<"a","(","{","}",")">>

\* b([1]): identifier and bracket-delimited array
PieceBracket == <<"b","(","[","1","]",")">>

\* c(1): identifier and parenthesized fragment that is a structured value
PieceParen == <<"c","(","1",")">>

\* d(x): identifier and parenthesized fragment that is no structured value
PieceParenText == <<"d","(","x",")">>

\* e({x}): identifier and braces that hold no structured value
PieceBraceText == <<"e","(","{","x","}",")">>

\* {"name":""}
PieceNoName == <<"{","\"","n","a","m","e","\"",":","\"","\"","}">>

Pieces ==
    {PieceBrace, PieceBracket, PieceParen, PieceParenText, PieceBraceText,
     PieceNoName, <<" ">>}

InlineInputs ==
    {Concat(parts) : parts \in UNION {[1..k -> Pieces] : k \in 0..MaxParts}}

InitInline ==
    /\ stage = "input"
    /\ arg \in InlineInputs
    /\ ret = Returned(<<>>)
    /\ LoopIdle

SpecInline == InitInline /\ [][NextParse]_vars

\* ------------------------------------------------------------------------
\* parse_tool_calls on responses made of fenced blocks: every concatenation
\* of at most MaxBlocks blocks
\* ------------------------------------------------------------------------
MaxBlocks == 2

\* the label line, the content, and the closing fence when terminated
Block(label, content, terminated) ==
    label \o <<"\n">> \o content \o <<"\n">>
    \o (IF terminated THEN Fence ELSE <<>>)

\* {"name":"a"}
ContentCallA == <<"{","\"","n","a","m","e","\"",":","\"","a","\"","}">>

\* {"name":"b"}
ContentCallB == <<"{","\"","n","a","m","e","\"",":","\"","b","\"","}">>

\* text that is no JSON
ContentText == <<"x">>

\* JSON that holds no call
ContentNoCall == <<"{","}">>

Blocks ==
    {Block(label, content, TRUE) :
        label \in {FenceToolCalls, FenceJson},
        content \in {ContentCallA, ContentCallB, ContentText, ContentNoCall}}
    \cup {Block(label, ContentCallA, FALSE) : label \in {FenceToolCalls, FenceJson}}
    \cup {SegInline}

BlockInputs ==
    {Concat(parts) : parts \in UNION {[1..k -> Blocks] : k \in 0..MaxBlocks}}

InitBlocks ==
    /\ stage = "input"
    /\ arg \in BlockInputs
    /\ ret = Returned(<<>>)
    /\ LoopIdle

SpecBlocks == InitBlocks /\ [][NextParse]_vars

\* ------------------------------------------------------------------------
\* extract_single_call on the three shapes of one call
\* ------------------------------------------------------------------------
B_shell == <<"s","h","e","l","l">>

B_command == <<"c","o","m","m","a","n","d">>

B_ls == <<"l","s">>

CallNames == {B_shell, <<"a">>, <<"E1","E2">>, <<>>}

ArgumentValues ==
    {Null, Bool(TRUE), Number(<<"1">>), String(B_ls), Array(<<>>), Array(<<Null>>),
     EmptyObject, Object(B_command :> String(B_ls)),
     Object(K_name :> String(<<"x">>))}

\* {"function": {"name": n, "arguments": a}}
FunctionStyle(n, a) ==
    Object(K_function :>
        Object(IF a.some THEN (K_name :> String(n)) @@ (K_arguments :> a.v)
               ELSE (K_name :> String(n))))

\* {"type": "tool_use", "name": n, "input": a}
ToolUseStyle(n, a) ==
    Object(IF a.some
           THEN (K_type :> String(K_tool_use)) @@ (K_name :> String(n)) @@ (K_input :> a.v)
           ELSE (K_type :> String(K_tool_use)) @@ (K_name :> String(n)))

\* {"name": n, "arguments": a}
GenericStyle(n, a) ==
    Object(IF a.some THEN (K_name :> String(n)) @@ (K_arguments :> a.v)
           ELSE (K_name :> String(n)))

ShapeValue(x) ==
    IF x.shape = "function" THEN FunctionStyle(x.name, x.arguments)
    ELSE IF x.shape = "tool_use" THEN ToolUseStyle(x.name, x.arguments)
    ELSE GenericStyle(x.name, x.arguments)

InitExtract ==
    /\ stage = "input"
    /\ arg \in [shape : {"function", "tool_use", "generic"},
                name : CallNames,
                arguments : {None} \cup {Some(a) : a \in ArgumentValues}]
    /\ ret = None
    /\ LoopIdle

CallExtract ==
    /\ stage = "input"
    /\ stage' = "done"
    /\ ret' = extract_single_call(ShapeValue(arg))
    /\ UNCHANGED <<arg, loopVars>>

NextExtract == CallExtract

SpecExtract == InitExtract /\ [][NextExtract]_vars

\* ------------------------------------------------------------------------
\* extract_single_call on objects holding any subset of the fields it reads
\* ------------------------------------------------------------------------
\* the object with the field added when it is given
WithField(map, key, field) == IF field.some THEN Insert(map, key, field.v) ELSE map

Optional(values) == {None} \cup {Some(v) : v \in values}

\* the "function" values: no name, a name that is no string, a name, and a
\* value that is no object
FunctionFields ==
    {EmptyObject, Object(K_name :> Number(<<"1">>)),
     Object((K_name :> String(<<"f">>)) @@ (K_arguments :> Number(<<"5">>))),
     String(<<"f">>)}

FieldInputs ==
    [function  : Optional(FunctionFields),
     type      : Optional({String(K_tool_use), String(<<"o">>)}),
     name      : Optional({String(<<"n">>), Number(<<"1">>)}),
     tool      : Optional({String(<<"t">>)}),
     arguments : Optional({Number(<<"1">>)}),
     args      : Optional({Number(<<"2">>)}),
     input     : Optional({Number(<<"3">>)}),
     params    : Optional({Number(<<"4">>)})]

FieldsValue(x) ==
    Object(WithField(WithField(WithField(WithField(WithField(WithField(
           WithField(WithField(NoFields, K_function, x.function),
                     K_type, x.type),
                     K_name, x.name),
                     K_tool, x.tool),
                     K_arguments, x.arguments),
                     K_args, x.args),
                     K_input, x.input),
                     K_params, x.params))

InitFields ==
    /\ stage = "input"
    /\ arg \in FieldInputs
    /\ ret = None
    /\ LoopIdle

CallExtractFields ==
    /\ stage = "input"
    /\ stage' = "done"
    /\ ret' = extract_single_call(FieldsValue(arg))
    /\ UNCHANGED <<arg, loopVars>>

NextFields == CallExtractFields

SpecFields == InitFields /\ [][NextFields]_vars

\* ------------------------------------------------------------------------
\* execute_tool_call on bounded registries
\* ------------------------------------------------------------------------
MaxTools == 2

ToolNames == {<<"a">>, <<"A">>, <<"b">>}

Registries == UNION {[1..k -> ToolNames] : k \in 0..MaxTools}

B_boom == <<"b","o","o","m">>

B_not_found == <<"C","o","m","m","a","n","d"," ","n","o","t"," ","f","o","u","n","d">>

ToolResults ==
    {ToolResult(s, o, e) : s \in BOOLEAN, o \in {<<>>, <<"o">>},
                           e \in {None, Some(B_not_found)}}

\* what a tool's execute can return
Outcomes == {Ok(r) : r \in ToolResults} \cup {Err(B_boom), Err(<<>>)}

InitExec ==
    /\ stage = "input"
    /\ arg \in [call : {ToolCall(n, a) : n \in {<<"a">>, <<"A">>, <<"c">>, <<>>},
                                        a \in {EmptyObject, String(B_ls)}},
                registry : Registries]
    /\ ret = None
    /\ LoopIdle

CallExec ==
    /\ stage = "input"
    /\ stage' = "done"
    /\ \E outcome \in Outcomes :
          ret' = [out     |-> execute_tool_call(arg.call, arg.registry, outcome),
                  outcome |-> IF FindTool(arg.registry, arg.call.name) = 0
                              THEN None ELSE Some(outcome)]
    /\ UNCHANGED <<arg, loopVars>>

NextExec == CallExec

SpecExec == InitExec /\ [][NextExec]_vars

\* ------------------------------------------------------------------------
\* format_tool_result
\* ------------------------------------------------------------------------
InitFormat ==
    /\ stage = "input"
    /\ arg \in [call : {ToolCall(n, a) : n \in {B_shell, <<"a">>, <<>>},
                                        a \in {EmptyObject, String(B_ls)}},
                result : {ToolResult(s, o, e) :
                             s \in BOOLEAN,
                             o \in {<<>>, <<"o">>, <<"t","e","s","t","\n">>},
                             e \in {None, Some(<<>>), Some(B_not_found)}}]
    /\ ret = <<>>
    /\ LoopIdle

CallFormat ==
    /\ stage = "input"
    /\ stage' = "done"
    /\ ret' = format_tool_result(arg.call, arg.result)
    /\ UNCHANGED <<arg, loopVars>>

NextFormat == CallFormat

SpecFormat == InitFormat /\ [][NextFormat]_vars

\* ------------------------------------------------------------------------
\* async fn handle_response_with_tools(provider, system_prompt, message,
\*                                     model, temperature, tools)
\* pc: "loop"  at the top of the loop (loop_.rs:49)
\*     "chat"  awaiting provider.chat_with_system (loop_.rs:55-57)
\*     "exec"  awaiting execute_tool_call in the for loop (loop_.rs:72-78)
\*     "done"  returned Ok(full_response) (loop_.rs:90)
\*     "error" returned the provider's Err through `?` (loop_.rs:57)
\*     "panic" unwound by a panic of parse_tool_calls (loop_.rs:60)
\* ------------------------------------------------------------------------
MAX_TOOL_ITERATIONS == 10

\* "Previous message: "
TxtPrevious ==
    <<"P","r","e","v","i","o","u","s"," ","m","e","s","s","a","g","e",":"," ">>

\* "\n\nTool execution results:\n"
TxtResults ==
    <<"\n","\n","T","o","o","l"," ","e","x","e","c","u","t","i","o","n"," ",
      "r","e","s","u","l","t","s",":","\n">>

\* "\n\nPlease continue based on these tool results."
TxtContinue ==
    <<"\n","\n","P","l","e","a","s","e"," ","c","o","n","t","i","n","u","e"," ",
      "b","a","s","e","d"," ","o","n"," ","t","h","e","s","e"," ","t","o","o","l"," ",
      "r","e","s","u","l","t","s",".">>

RECURSIVE Join(_, _)
\* [String]::join(sep)
Join(strings, sep) ==
    IF strings = <<>> THEN <<>>
    ELSE IF Len(strings) = 1 THEN strings[1]
    ELSE strings[1] \o sep \o Join(Tail(strings), sep)

\* Faulty variant of NextMessage: the prompt is built on the previous prompt
\* instead of the original message.
NextMessage_accumulated(original, results) ==
    TxtPrevious \o current_message \o TxtResults \o Join(results, <<"\n","\n">>)
    \o TxtContinue

\* the format! at loop_.rs:81-85
NextMessage(original, results) ==
    TxtPrevious \o original \o TxtResults \o Join(results, <<"\n","\n">>)
    \o TxtContinue

\* What the provider can answer: prose, one call, a batch of two calls, a
\* tool_calls label at the very end of the text, and a call with arguments.
RespProse == <<"d","o","n","e">>

RespOneCall == <<"{","\"","n","a","m","e","\"",":","\"","a","\"","}">>

RespTwoCalls ==
    <<"[","{","\"","t","o","o","l","\"",":","\"","b","\"","}",",",
      "{","\"","n","a","m","e","\"",":","\"","a","\"","}","]">>

RespLabelAtEnd == <<"o","k"," ">> \o FenceToolCalls

\* {"name":"a","args":[1]}
RespCallWithArgs ==
    <<"{","\"","n","a","m","e","\"",":","\"","a","\"",",",
      "\"","a","r","g","s","\"",":","[","1","]","}">>

ModelResponses ==
    {RespProse, RespOneCall, RespTwoCalls, RespLabelAtEnd, RespCallWithArgs}

ProviderErrors == {<<"t","i","m","e","o","u","t">>}

\* what a tool's execute returns during a run
RunOutcomes ==
    {Ok(ToolResult(TRUE, <<"o">>, None)), Ok(ToolResult(FALSE, <<>>, None)),
     Err(B_boom)}

Init ==
    /\ stage = "run"
    /\ arg = <<>>
    /\ ret = <<>>
    /\ pc = "loop"
    /\ tools \in Registries
    /\ message \in {<<"h","i">>}
    /\ current_message = message
    /\ iteration = 0
    /\ full_response = <<>>
    /\ response = None
    /\ tool_calls = <<>>
    /\ tool_results = <<>>
    /\ next_call = 0
    /\ model_calls = 0
    /\ exec_count = 0
    /\ retval = None
    /\ every_response_had_calls = TRUE
    /\ executed = None

\* Faulty variant of CapReached: the text of the last response is returned.
CapReached_returns_last_response ==
    /\ pc = "loop"
    /\ iteration >= MAX_TOOL_ITERATIONS
    /\ pc' = "done"
    /\ retval' = Some(Ok(response.v))
    /\ UNCHANGED <<harnessVars, tools, message, current_message, iteration,
                   full_response, response, tool_calls, tool_results, next_call,
                   model_calls, exec_count, every_response_had_calls, executed>>

\* loop_.rs:50-53 and 90: the cap is reached, break and return
CapReached ==
    /\ pc = "loop"
    /\ iteration >= MAX_TOOL_ITERATIONS
    /\ pc' = "done"
    /\ retval' = Some(Ok(full_response))
    /\ UNCHANGED <<harnessVars, tools, message, current_message, iteration,
                   full_response, response, tool_calls, tool_results, next_call,
                   model_calls, exec_count, every_response_had_calls, executed>>

\* Faulty variant of Request: the cap test is off by one (> instead of >=).
Request_off_by_one ==
    /\ pc = "loop"
    /\ iteration <= MAX_TOOL_ITERATIONS
    /\ pc' = "chat"
    /\ model_calls' = model_calls + 1
    /\ UNCHANGED <<harnessVars, tools, message, current_message, iteration,
                   full_response, response, tool_calls, tool_results, next_call,
                   exec_count, retval, every_response_had_calls, executed>>

\* loop_.rs:50-57: below the cap, call the provider with current_message
Request ==
    /\ pc = "loop"
    /\ ~(iteration >= MAX_TOOL_ITERATIONS)
    /\ pc' = "chat"
    /\ model_calls' = model_calls + 1
    /\ UNCHANGED <<harnessVars, tools, message, current_message, iteration,
                   full_response, response, tool_calls, tool_results, next_call,
                   exec_count, retval, every_response_had_calls, executed>>

\* Faulty variant of ChatFails: the failed call is retried.
ChatFails_retried ==
    /\ pc = "chat"
    /\ \E e \in ProviderErrors : response' = Err(e)
    /\ pc' = "loop"
    /\ UNCHANGED <<harnessVars, tools, message, current_message, iteration,
                   full_response, tool_calls, tool_results, next_call,
                   model_calls, exec_count, retval, every_response_had_calls, executed>>

\* loop_.rs:55-57: chat_with_system returns Err, `?` returns it
ChatFails ==
    /\ pc = "chat"
    /\ \E e \in ProviderErrors :
          /\ response' = Err(e)
          /\ retval' = Some(Err(e))
    /\ pc' = "error"
    /\ UNCHANGED <<harnessVars, tools, message, current_message, iteration,
                   full_response, tool_calls, tool_results, next_call,
                   model_calls, exec_count, every_response_had_calls, executed>>

\* Faulty variant of ChatReceived: the final response is not stored in
\* full_response.
ChatReceived_answer_lost(text, parsed) ==
    /\ response' = Ok(text)
    /\ IF parsed.panic THEN
           /\ pc' = "panic"
           /\ every_response_had_calls' = FALSE
           /\ UNCHANGED <<full_response, tool_calls, tool_results, next_call,
                          retval>>
       ELSE IF parsed.calls = <<>> THEN
           /\ pc' = "done"
           /\ retval' = Some(Ok(full_response))
           /\ every_response_had_calls' = FALSE
           /\ UNCHANGED <<full_response, tool_calls, tool_results, next_call>>
       ELSE
           /\ tool_calls' = parsed.calls
           /\ tool_results' = <<>>
           /\ next_call' = 1
           /\ pc' = "exec"
           /\ UNCHANGED <<full_response, retval, every_response_had_calls>>

\* loop_.rs:59-70: the response text is parsed into parsed; without calls
\* the text is the final response (break, return), otherwise the batch starts
ChatReceived(text, parsed) ==
    /\ response' = Ok(text)
    /\ IF parsed.panic THEN
           /\ pc' = "panic"
           /\ every_response_had_calls' = FALSE
           /\ UNCHANGED <<full_response, tool_calls, tool_results, next_call,
                          retval>>
       ELSE IF parsed.calls = <<>> THEN
           /\ full_response' = text
           /\ pc' = "done"
           /\ retval' = Some(Ok(text))
           /\ every_response_had_calls' = FALSE
           /\ UNCHANGED <<tool_calls, tool_results, next_call>>
       ELSE
           /\ tool_calls' = parsed.calls
           /\ tool_results' = <<>>
           /\ next_call' = 1
           /\ pc' = "exec"
           /\ UNCHANGED <<full_response, retval, every_response_had_calls>>

\* loop_.rs:55-60: chat_with_system returns Ok(response), which is parsed
ChatReturns ==
    /\ pc = "chat"
    /\ \E text \in ModelResponses : ChatReceived(text, parse_tool_calls(text))
    /\ UNCHANGED <<harnessVars, tools, message, current_message, iteration,
                   model_calls, exec_count, executed>>

\* Faulty variant of ExecuteCall: the results of the batch are not put
\* into the next message.
ExecuteCall_results_not_delivered ==
    /\ pc = "exec"
    /\ \E outcome \in RunOutcomes :
          LET call      == tool_calls[next_call]
              executed_now == execute_tool_call(call, tools, outcome)
              formatted == format_tool_result(call, executed_now.result)
              results   == Append(tool_results, formatted)
          IN  /\ tool_results' = results
              /\ executed' = Some([call    |-> call,
                                   tool    |-> executed_now.invoked,
                                   passed  |-> executed_now.passed,
                                   outcome |-> IF executed_now.invoked = 0 THEN None
                                               ELSE Some(outcome),
                                   result  |-> executed_now.result])
              /\ exec_count' = exec_count + (IF executed_now.invoked = 0 THEN 0 ELSE 1)
              /\ IF next_call < Len(tool_calls) THEN
                     /\ next_call' = next_call + 1
                     /\ UNCHANGED <<pc, current_message, iteration>>
                 ELSE
                     /\ iteration' = iteration + 1
                     /\ pc' = "loop"
                     /\ UNCHANGED <<next_call, current_message>>
    /\ UNCHANGED <<harnessVars, tools, message, full_response, response,
                   tool_calls, model_calls, retval, every_response_had_calls>>

\* Faulty variant of ExecuteCall: the batch is executed from its last call
\* to its first.
ExecuteCall_reverse_order ==
    /\ pc = "exec"
    /\ \E outcome \in RunOutcomes :
          LET call      == tool_calls[Len(tool_calls) - next_call + 1]
              executed_now == execute_tool_call(call, tools, outcome)
              formatted == format_tool_result(call, executed_now.result)
              results   == Append(tool_results, formatted)
          IN  /\ tool_results' = results
              /\ executed' = Some([call    |-> call,
                                   tool    |-> executed_now.invoked,
                                   passed  |-> executed_now.passed,
                                   outcome |-> IF executed_now.invoked = 0 THEN None
                                               ELSE Some(outcome),
                                   result  |-> executed_now.result])
              /\ exec_count' = exec_count + (IF executed_now.invoked = 0 THEN 0 ELSE 1)
              /\ IF next_call < Len(tool_calls) THEN
                     /\ next_call' = next_call + 1
                     /\ UNCHANGED <<pc, current_message, iteration>>
                 ELSE
                     /\ current_message' = NextMessage(message, results)
                     /\ iteration' = iteration + 1
                     /\ pc' = "loop"
                     /\ UNCHANGED next_call
    /\ UNCHANGED <<harnessVars, tools, message, full_response, response,
                   tool_calls, model_calls, retval, every_response_had_calls>>

\* Faulty variant of ExecuteCall: a failure of the tool's execute aborts the
\* run with that error instead of being fed back.
ExecuteCall_abort_on_error ==
    /\ pc = "exec"
    /\ \E outcome \in RunOutcomes :
          LET call      == tool_calls[next_call]
              executed_now == execute_tool_call(call, tools, outcome)
              formatted == format_tool_result(call, executed_now.result)
              results   == Append(tool_results, formatted)
          IN  /\ tool_results' = results
              /\ executed' = Some([call    |-> call,
                                   tool    |-> executed_now.invoked,
                                   passed  |-> executed_now.passed,
                                   outcome |-> IF executed_now.invoked = 0 THEN None
                                               ELSE Some(outcome),
                                   result  |-> executed_now.result])
              /\ exec_count' = exec_count + (IF executed_now.invoked = 0 THEN 0 ELSE 1)
              /\ IF executed_now.invoked # 0 /\ ~outcome.ok THEN
                     /\ pc' = "error"
                     /\ retval' = Some(Err(outcome.e))
                     /\ UNCHANGED <<next_call, current_message, iteration>>
                 ELSE IF next_call < Len(tool_calls) THEN
                     /\ next_call' = next_call + 1
                     /\ UNCHANGED <<pc, current_message, iteration, retval>>
                 ELSE
                     /\ current_message' = NextMessage(message, results)
                     /\ iteration' = iteration + 1
                     /\ pc' = "loop"
                     /\ UNCHANGED <<next_call, retval>>
    /\ UNCHANGED <<harnessVars, tools, message, full_response, response,
                   tool_calls, model_calls, every_response_had_calls>>

\* loop_.rs:72-87: one pass of the for loop (execute the call, format and
\* push the result); after the last call build the next message and count
\* the iteration
ExecuteCall ==
    /\ pc = "exec"
    /\ \E outcome \in RunOutcomes :
          LET call      == tool_calls[next_call]
              executed_now == execute_tool_call(call, tools, outcome)
              formatted == format_tool_result(call, executed_now.result)
              results   == Append(tool_results, formatted)
          IN  /\ tool_results' = results
              /\ executed' = Some([call    |-> call,
                                   tool    |-> executed_now.invoked,
                                   passed  |-> executed_now.passed,
                                   outcome |-> IF executed_now.invoked = 0 THEN None
                                               ELSE Some(outcome),
                                   result  |-> executed_now.result])
              /\ exec_count' = exec_count + (IF executed_now.invoked = 0 THEN 0 ELSE 1)
              /\ IF next_call < Len(tool_calls) THEN
                     /\ next_call' = next_call + 1
                     /\ UNCHANGED <<pc, current_message, iteration>>
                 ELSE
                     /\ current_message' = NextMessage(message, results)
                     /\ iteration' = iteration + 1
                     /\ pc' = "loop"
                     /\ UNCHANGED next_call
    /\ UNCHANGED <<harnessVars, tools, message, full_response, response,
                   tool_calls, model_calls, retval, every_response_had_calls>>

Next == CapReached \/ Request \/ ChatFails \/ ChatReturns \/ ExecuteCall

Spec == Init /\ [][Next]_vars

\* The run under the condition that every await returns: the provider call
\* (loop_.rs:55-57) and each execute_tool_call (loop_.rs:74) complete, and
\* the code between two awaits runs to the next one.
FairSpec == Spec /\ WF_vars(Next)

\* ------------------------------------------------------------------------
\* oauth/mod.rs: the strings and the pure functions of the callback handler
\* ------------------------------------------------------------------------
\* str::strip_prefix
strip_prefix(s, prefix) ==
    IF Len(s) >= Len(prefix) /\ SubSeq(s, 1, Len(prefix)) = prefix
    THEN Some(SubSeq(s, Len(prefix) + 1, Len(s)))
    ELSE None

RECURSIVE split(_, _)
\* str::split(byte): the pieces between the separators, empty ones included
split(s, sep) ==
    LET at == {i \in 1..Len(s) : s[i] = sep}
    IN  IF at = {} THEN <<s>>
        ELSE <<SubSeq(s, 1, SetMin(at) - 1)>>
             \o split(SubSeq(s, SetMin(at) + 1, Len(s)), sep)

\* str::splitn(2, byte): the text before the first separator and, when
\* there is a separator, the text after it
splitn2(s, sep) ==
    LET at == {i \in 1..Len(s) : s[i] = sep}
    IN  IF at = {} THEN <<s>>
        ELSE <<SubSeq(s, 1, SetMin(at) - 1), SubSeq(s, SetMin(at) + 1, Len(s))>>

RECURSIVE split_whitespace(_)
\* str::split_whitespace: the non-empty runs between white space
split_whitespace(s) ==
    LET start == SkipWs(s, 1)
    IN  IF start > Len(s) THEN <<>>
        ELSE LET stop == SetMin({i \in start..(Len(s) + 1) :
                                     i = Len(s) + 1 \/ IsSpace(s[i])})
             IN  <<SubSeq(s, start, stop - 1)>>
                 \o split_whitespace(SubSeq(s, stop, Len(s)))

\* HashMap::new()
EmptyMap == [k \in {} |-> <<>>]

RECURSIVE CollectPairs(_, _, _)
\* filter_map(..).collect() of parse_query_params: a pair without "=" is
\* dropped, a repeated key keeps the later value
CollectPairs(pairs, i, map) ==
    IF i > Len(pairs) THEN map
    ELSE LET parts == splitn2(pairs[i], "=")
         IN  CollectPairs(pairs, i + 1,
                          IF Len(parts) < 2 THEN map
                          ELSE (parts[1] :> parts[2]) @@ map)

\* fn parse_query_params(query: &str) -> HashMap<String, String>
parse_query_params(query) == CollectPairs(split(query, "&"), 1, EmptyMap)

\* HashMap::get
MapGet(map, key) == IF key \in DOMAIN map THEN Some(map[key]) ELSE None

HexDigits == <<"0","1","2","3","4","5","6","7","8","9","a","b","c","d","e","f">>

RECURSIVE LowerHex(_)
\* format!("{:x}", n)
LowerHex(n) ==
    IF n < 16 THEN <<HexDigits[n + 1]>>
    ELSE LowerHex(n \div 16) \o <<HexDigits[(n % 16) + 1]>>

\* fn generate_state() -> String, timestamp being the nanoseconds read
\* from the clock
generate_state(timestamp) == LowerHex(timestamp)

\* "/callback?"
TxtCallbackPrefix == <<"/","c","a","l","l","b","a","c","k","?">>

\* "code"
K_code == <<"c","o","d","e">>

\* "error"
K_error == <<"e","r","r","o","r">>

\* "Bearer"
TxtBearer == <<"B","e","a","r","e","r">>

\* "Invalid HTTP request"
TxtInvalidRequest == <<"I","n","v","a","l","i","d"," ","H","T","T","P"," ","r","e","q","u","e","s","t">>

\* "OAuth error: "
TxtOAuthError == <<"O","A","u","t","h"," ","e","r","r","o","r",":"," ">>

\* "No code in OAuth callback"
TxtNoCode == <<"N","o"," ","c","o","d","e"," ","i","n"," ","O","A","u","t","h"," ","c","a","l","l","b","a","c","k">>

\* "Invalid callback path: "
TxtInvalidPath == <<"I","n","v","a","l","i","d"," ","c","a","l","l","b","a","c","k"," ","p","a","t","h",":"," ">>

\* struct OAuthCredentials
OAuthCredentials(access_token, refresh_token, token_type, expires_in, provider) ==
    [access_token |-> access_token, refresh_token |-> refresh_token,
     token_type |-> token_type, expires_in |-> expires_in, provider |-> provider]

\* Faulty variant of CredentialFromPath: an "error" parameter is looked up
\* before "code".
CredentialFromPath_error_first(path, provider) ==
    LET query == strip_prefix(path, TxtCallbackPrefix)
    IN  IF ~query.some THEN Err(TxtInvalidPath \o path)
        ELSE LET params == parse_query_params(query.v)
             IN  IF MapGet(params, K_error).some
                 THEN Err(TxtOAuthError \o MapGet(params, K_error).v)
                 ELSE IF MapGet(params, K_code).some
                 THEN Ok(OAuthCredentials(MapGet(params, K_code).v, None,
                                          TxtBearer, None, provider))
                 ELSE Err(TxtNoCode)

\* oauth/mod.rs:185-203: the credential read from the path, or the error
\* that handle_callback bails with
CredentialFromPath(path, provider) ==
    LET query == strip_prefix(path, TxtCallbackPrefix)
    IN  IF ~query.some THEN Err(TxtInvalidPath \o path)
        ELSE LET params == parse_query_params(query.v)
             IN  IF MapGet(params, K_code).some
                 THEN Ok(OAuthCredentials(MapGet(params, K_code).v, None,
                                          TxtBearer, None, provider))
                 ELSE IF MapGet(params, K_error).some
                 THEN Err(TxtOAuthError \o MapGet(params, K_error).v)
                 ELSE Err(TxtNoCode)

\* ------------------------------------------------------------------------
\* OAuthHandler::start_callback_server and handle_callback, one connection
\* stage: "bind"         before TcpListener::bind (mod.rs:134)
\*        "accept"       awaiting listener.accept() (mod.rs:160)
\*        "request_line" awaiting the first read_line (mod.rs:166)
\*        "headers"      awaiting a read_line of the header loop (mod.rs:178)
\*        "write"        awaiting write_all and flush (mod.rs:221-222)
\*        "returned"     start_callback_server returned
\* arg:   what the browser sends and what the clock reads
\* ret:   the handler's state: the state put into the authorization URL,
\*        the connections accepted, the path, the header lines read, the
\*        credential, whether the success page was written, the result
\* ------------------------------------------------------------------------
MaxPairs == 2

\* the nanosecond readings of the clock
Timestamps == {26, 27}

\* "qwen" (OAuthConfig::qwen)
ConfigProvider == <<"q","w","e","n">>

B_abc == <<"a","b","c">>

B_denied == <<"d","e","n","i","e","d">>

B_state == <<"s","t","a","t","e">>

\* the parameters a callback can carry: key and, after "=", value
QueryPairs ==
    {[k |-> K_code, v |-> Some(B_abc)],
     [k |-> K_code, v |-> Some(<<"a","=","b">>)],
     [k |-> K_code, v |-> None],
     [k |-> K_error, v |-> Some(B_denied)]}
    \cup {[k |-> B_state, v |-> Some(generate_state(t))] : t \in Timestamps}

PathPrefixes == {TxtCallbackPrefix, <<"/","c","b","?">>, <<"/","c","a","l","l","b","a","c","k">>}

RECURSIVE RenderPairs(_)
\* key=value pairs joined by "&"
RenderPairs(pairs) ==
    IF pairs = <<>> THEN <<>>
    ELSE (Head(pairs).k
          \o (IF Head(pairs).v.some THEN <<"=">> \o Head(pairs).v.v ELSE <<>>))
         \o (IF Len(pairs) > 1 THEN <<"&">> \o RenderPairs(Tail(pairs)) ELSE <<>>)

\* the first line the browser sends
RequestLine(x) ==
    IF x.form = "full"
    THEN <<"G","E","T"," ">> \o x.prefix \o RenderPairs(x.pairs) \o <<" ","H","T","T","P","/","1",".","1","\r","\n">>
    ELSE IF x.form = "short"
    THEN <<"G","E","T"," ">> \o x.prefix \o RenderPairs(x.pairs) \o <<"\r","\n">>
    ELSE IF x.form = "one"
    THEN <<"G","E","T","\r","\n">>
    ELSE <<>>

\* "Host: x\r\n"
HeaderLine == <<"H","o","s","t",":"," ","x","\r","\n">>

\* "\r\n"
BlankLine == <<"\r","\n">>

CallbackInputs ==
    [form      : {"full", "short", "one", "empty"},
     prefix    : PathPrefixes,
     pairs     : UNION {[1..n -> QueryPairs] : n \in 0..MaxPairs},
     headers   : {0, 1},
     timestamp : Timestamps]

\* "Failed to bind to local server port"
TxtBindFailed == <<"F","a","i","l","e","d"," ","t","o"," ","b","i","n","d"," ","t","o"," ","l","o","c","a","l"," ","s","e","r","v","e","r"," ","p","o","r","t">>

\* "Failed to accept connection"
TxtAcceptFailed == <<"F","a","i","l","e","d"," ","t","o"," ","a","c","c","e","p","t"," ","c","o","n","n","e","c","t","i","o","n">>

\* "OAuth authentication timed out"
TxtTimedOut == <<"O","A","u","t","h"," ","a","u","t","h","e","n","t","i","c","a","t","i","o","n"," ","t","i","m","e","d"," ","o","u","t">>

\* the text of a std::io::Error
TxtIoError == <<"i","o">>

InitOAuth ==
    /\ stage = "bind"
    /\ arg \in CallbackInputs
    /\ ret = [state |-> None, accepted |-> 0, path |-> None, headers_read |-> 0,
              credential |-> None, written |-> FALSE, result |-> None]
    /\ LoopIdle

\* mod.rs:132-149: bind, build the authorization URL with a fresh state,
\* open the browser, start waiting for the callback
StartCallbackServer ==
    /\ stage = "bind"
    /\ \E bound \in BOOLEAN :
          IF bound
          THEN /\ ret' = [ret EXCEPT !.state = Some(generate_state(arg.timestamp))]
               /\ stage' = "accept"
          ELSE /\ ret' = [ret EXCEPT !.result = Some(Err(TxtBindFailed))]
               /\ stage' = "returned"
    /\ UNCHANGED <<arg, loopVars>>

\* mod.rs:160: listener.accept().await
AcceptConnection ==
    /\ stage = "accept"
    /\ \E accepted \in BOOLEAN :
          IF accepted
          THEN /\ ret' = [ret EXCEPT !.accepted = @ + 1]
               /\ stage' = "request_line"
          ELSE /\ ret' = [ret EXCEPT !.result = Some(Err(TxtAcceptFailed))]
               /\ stage' = "returned"
    /\ UNCHANGED <<arg, loopVars>>

\* what mod.rs:167-173 makes of the request line: bail, or go on to the
\* headers with the path
AfterRequestLine(state, parts) ==
    IF Len(parts) < 2
    THEN [state EXCEPT !.result = Some(Err(TxtInvalidRequest))]
    ELSE [state EXCEPT !.path = Some(parts[2])]

\* mod.rs:166-173: read the request line and take its second token
ReadRequestLine ==
    /\ stage = "request_line"
    /\ \E read \in BOOLEAN :
          IF read
          THEN /\ ret' = AfterRequestLine(ret, split_whitespace(RequestLine(arg)))
               /\ stage' = IF ret'.result.some THEN "returned" ELSE "headers"
          ELSE /\ ret' = [ret EXCEPT !.result = Some(Err(TxtIoError))]
               /\ stage' = "returned"
    /\ UNCHANGED <<arg, loopVars>>

\* what mod.rs:185-203 makes of the path: bail, or keep the credential
AfterHeaders(state, credential) ==
    IF credential.ok
    THEN [state EXCEPT !.credential = Some(credential.v)]
    ELSE [state EXCEPT !.result = Some(credential)]

\* mod.rs:176-203: read one line of the header loop; on the empty line
\* leave the loop and read the credential from the path
ReadHeaderLine ==
    /\ stage = "headers"
    /\ \E read \in BOOLEAN :
          IF ~read
          THEN /\ ret' = [ret EXCEPT !.result = Some(Err(TxtIoError))]
               /\ stage' = "returned"
          ELSE IF Trim(IF ret.headers_read < arg.headers THEN HeaderLine
                       ELSE BlankLine) # <<>>
          THEN /\ ret' = [ret EXCEPT !.headers_read = @ + 1]
               /\ stage' = "headers"
          ELSE /\ ret' = AfterHeaders(ret, CredentialFromPath(ret.path.v,
                                                              ConfigProvider))
               /\ stage' = IF ret'.result.some THEN "returned" ELSE "write"
    /\ UNCHANGED <<arg, loopVars>>

\* mod.rs:205-224: write the success page and return the credential
WriteSuccessPage ==
    /\ stage = "write"
    /\ \E sent \in BOOLEAN :
          IF sent
          THEN ret' = [ret EXCEPT !.written = TRUE,
                                  !.result = Some(Ok(ret.credential.v))]
          ELSE ret' = [ret EXCEPT !.result = Some(Err(TxtIoError))]
    /\ stage' = "returned"
    /\ UNCHANGED <<arg, loopVars>>

\* mod.rs:147-152: the 300 s timeout ends the wait at the pending await
CallbackTimeout ==
    /\ stage \in {"accept", "request_line", "headers", "write"}
    /\ ret' = [ret EXCEPT !.result = Some(Err(TxtTimedOut))]
    /\ stage' = "returned"
    /\ UNCHANGED <<arg, loopVars>>

NextOAuth ==
    \/ StartCallbackServer
    \/ AcceptConnection
    \/ ReadRequestLine
    \/ ReadHeaderLine
    \/ WriteSuccessPage
    \/ CallbackTimeout

SpecOAuth == InitOAuth /\ [][NextOAuth]_vars

\* ========================================================================
\* Claims
\* ========================================================================

\* C1: parse_tool_calls never fails: for every input it returns a (possibly
\* empty) sequence of tool calls and never panics.
C1_ParseNeverPanics == stage = "done" => ~ret.panic

\* The first element of outputs that is not empty, the empty sequence when
\* all are empty.
RECURSIVE FirstNonEmpty(_)
FirstNonEmpty(outputs) ==
    IF outputs = <<>> THEN <<>>
    ELSE IF Head(outputs) # <<>> THEN Head(outputs)
    ELSE FirstNonEmpty(Tail(outputs))

\* C2: the result of parse_tool_calls is exactly the output of the first of
\* the four strategies (fenced tool_calls, fenced json, whole response,
\* inline) whose output is non-empty, and the empty sequence when every
\* strategy yields nothing; a miss in one strategy only falls through.
C2_FirstNonEmptyStrategyWins ==
    stage = "done" =>
        ret = Returned(FirstNonEmpty(<<FencedStrategy(arg, FenceToolCalls, 14).calls,
                                       FencedStrategy(arg, FenceJson, 7).calls,
                                       DirectStrategy(arg),
                                       BracketedStrategy(arg)>>))

\* The text of the fenced tool_calls block of a response: from the line
\* after the first tool_calls label to the next fence.
ToolCallsBlock(r) ==
    LET found == Find(r, FenceToolCalls)
    IN  IF ~found.some THEN None
        ELSE LET nl    == Find(SliceFrom(r, found.v), <<"\n">>)
                 start == found.v + nl.v + 1
             IN  IF ~nl.some THEN None
                 ELSE LET close == Find(SliceFrom(r, start), Fence)
                      IN  IF close.some THEN Some(Slice(r, start, start + close.v))
                          ELSE None

\* The calls a block text decodes to.
BlockCalls(text) ==
    IF from_str(Trim(text)).some
    THEN extract_calls_from_value(from_str(Trim(text)).v)
    ELSE <<>>

\* The response holds an inline bracketed call identifier(args).
HasInlineCall(r) == parse_bracketed_tool_calls(r).some

InResult(call, calls) == \E i \in 1..Len(calls) : calls[i] = call

C4_ThreeShapesSameCall ==
    stage = "done" =>
        ret = Some(ToolCall(arg.name,
                            IF arg.arguments.some THEN arg.arguments.v
                            ELSE EmptyObject))

\* A tool-use style value without input was extracted.
C4_Witness ==
    /\ stage = "done"
    /\ arg.shape = "tool_use"
    /\ ~arg.arguments.some
    /\ ret.some
    /\ ret.v.arguments = EmptyObject

\* C5: when no tool of the registry has exactly the name of the call, no
\* tool is invoked and the result is
\* {success: false, output: "", error: "Tool '<name>' not found"}.
C5_UnknownToolNotFound ==
    (stage = "done"
     /\ \A i \in 1..Len(arg.registry) : arg.registry[i] # arg.call.name) =>
        /\ ret.out.invoked = 0
        /\ ret.out.result.success = FALSE
        /\ ret.out.result.output = <<>>
        /\ ret.out.result.error =
              Some(<<"T","o","o","l"," ","'">> \o arg.call.name
                   \o <<"'"," ","n","o","t"," ","f","o","u","n","d">>)

\* A call was executed against a registry that holds its name only in
\* another case.
C5_Witness ==
    /\ stage = "done"
    /\ arg.call.name = <<"a">>
    /\ arg.registry = <<<<"b">>, <<"A">>>>
    /\ ret.out.result.success = FALSE

\* C6: execute_tool_call always yields a ToolResult; what the matched tool
\* returns is passed through unchanged, and a failure of its execute becomes
\* {success: false, output: "", error: "Tool execution failed: <cause>"}.
C6_ExecutionOutcomeNormalised ==
    stage = "done" =>
        /\ DOMAIN ret.out.result = {"success", "output", "error"}
        /\ ret.out.result.success \in BOOLEAN
        /\ (ret.outcome.some /\ ret.outcome.v.ok) =>
              ret.out.result = ret.outcome.v.v
        /\ (ret.outcome.some /\ ~ret.outcome.v.ok) =>
              ret.out.result =
                  [success |-> FALSE, output |-> <<>>,
                   error |-> Some(<<"T","o","o","l"," ","e","x","e","c","u","t",
                                    "i","o","n"," ","f","a","i","l","e","d",":"," ">>
                                  \o ret.outcome.v.e)]

\* The matched tool returned a failed result carrying an error text, and
\* in another run its execute failed.
C6_Witness ==
    /\ stage = "done"
    /\ ret.outcome.some
    /\ ret.outcome.v.ok
    /\ ~ret.outcome.v.v.success
    /\ ret.outcome.v.v.error.some
    /\ ret.out.result = ret.outcome.v.v

\* C7: format_tool_result depends only on the name and the result: on
\* success "Tool <name> completed successfully:\nOutput: <output>", on
\* failure "Tool <name> failed:\nError: <error>", with "Unknown error" for an
\* absent error.
C7_FormatToolResult ==
    stage = "done" =>
        ret = IF arg.result.success
              THEN <<"T","o","o","l"," ">> \o arg.call.name
                   \o <<" ","c","o","m","p","l","e","t","e","d"," ","s","u","c",
                        "c","e","s","s","f","u","l","l","y",":","\n",
                        "O","u","t","p","u","t",":"," ">>
                   \o arg.result.output
              ELSE <<"T","o","o","l"," ">> \o arg.call.name
                   \o <<" ","f","a","i","l","e","d",":","\n","E","r","r","o","r",":"," ">>
                   \o (IF arg.result.error = None
                       THEN <<"U","n","k","n","o","w","n"," ","e","r","r","o","r">>
                       ELSE arg.result.error.v)

\* A failed result without an error text was formatted.
C7_Witness ==
    /\ stage = "done"
    /\ ~arg.result.success
    /\ arg.result.error = None
    /\ Len(ret) > 0

\* C8: with the cap of 10, a run whose model returns tool calls on every
\* response performs exactly 10 model calls, no more and no fewer, and then
\* terminates: it is below 10 calls only while it still runs, and after the
\* 10th batch the loop is at the cap, where only the return is possible.
C8_ExactlyCapModelCalls ==
    every_response_had_calls =>
        /\ model_calls <= 10
        /\ (pc = "done" => model_calls = 10)
        /\ (pc = "loop" /\ model_calls = 10) => (iteration >= MAX_TOOL_ITERATIONS)

\* A run ended at the cap after 10 responses with calls.
C8_Witness ==
    /\ pc = "done"
    /\ every_response_had_calls
    /\ model_calls = 10
    /\ exec_count > 0

\* C9: when a response parses to no tool calls the run goes to Done and
\* returns exactly that text, executing no tool and issuing no model call
\* afterwards; on the first response it ends at iteration 0 after exactly one
\* model call.
C9_NoCallsIsFinalAnswer ==
    [][/\ (/\ pc = "chat"
           /\ response'.ok
           /\ ~parse_tool_calls(response'.v).panic
           /\ parse_tool_calls(response'.v).calls = <<>>) =>
              /\ pc' = "done"
              /\ retval' = Some(Ok(response'.v))
              /\ exec_count' = exec_count
              /\ model_calls' = model_calls
              /\ (model_calls = 1 => iteration' = 0)
       /\ (pc = "done" => UNCHANGED vars)]_vars

\* The first response was prose and was returned as the answer.
C9_Witness ==
    /\ pc = "done"
    /\ model_calls = 1
    /\ iteration = 0
    /\ exec_count = 0
    /\ retval = Some(Ok(RespProse))

\* C10: a failure of the model call is fatal at any iteration: the run
\* returns that error, the call is not retried, no model call or tool
\* execution follows, and the error becomes neither a tool result nor an
\* answer string.
C10_ProviderFailureIsFatal ==
    [][/\ (pc = "chat" /\ ~response'.ok) =>
              /\ pc' = "error"
              /\ retval' = Some(Err(response'.e))
              /\ model_calls' = model_calls
              /\ exec_count' = exec_count
              /\ tool_results' = tool_results
              /\ full_response' = full_response
              /\ current_message' = current_message
       /\ (pc = "error" => UNCHANGED vars)]_vars

\* The provider failed after several iterations with executed tools.
C10_Witness ==
    /\ pc = "error"
    /\ iteration > 1
    /\ exec_count > 0
    /\ ~retval.v.ok

\* s starts with p
HasPrefix(s, p) == Len(s) >= Len(p) /\ SubSeq(s, 1, Len(p)) = p

\* "Tool <name> failed"
FailedHeader(name) ==
    <<"T","o","o","l"," ">> \o name \o <<" ","f","a","i","l","e","d">>

\* the latest execute_tool_call found no tool or the tool's execute failed
LatestCallFailed(e) ==
    e.some /\ (e.v.tool = 0 \/ (e.v.outcome.some /\ ~e.v.outcome.v.ok))

\* C11: an unknown tool or a failed execute never aborts the run: the step
\* that executes such a call leaves the run going, every remaining call of
\* the batch is executed after it, its result is encoded as
\* "Tool <name> failed" in the batch and in the next prompt, and below the
\* cap the next step after the batch is the next model call.
C11_ToolFailureNeverAborts ==
    /\ []((pc = "loop" /\ iteration < MAX_TOOL_ITERATIONS) => ENABLED Request)
    /\ []((pc = "exec" /\ executed.some /\ next_call > 1) =>
            Len(tool_results) = next_call - 1)
    /\ [][
          /\ (pc = "exec" /\ LatestCallFailed(executed')) =>
                /\ retval' = None
                /\ tool_calls' = tool_calls
                /\ executed'.v.call = tool_calls[next_call]
                /\ Len(tool_results') = next_call
                /\ HasPrefix(tool_results'[next_call],
                             FailedHeader(tool_calls[next_call].name))
                /\ IF next_call < Len(tool_calls)
                   THEN pc' = "exec" /\ next_call' = next_call + 1
                   ELSE /\ pc' = "loop"
                        /\ \A i \in 1..Len(tool_results') :
                              Find(current_message', tool_results'[i]).some
          /\ (pc = "exec" /\ pc' = "exec") => tool_results' # tool_results
          /\ (pc = "loop" /\ iteration < MAX_TOOL_ITERATIONS) =>
                (pc' = "chat" /\ model_calls' = model_calls + 1)
       ]_vars

\* After a batch of two calls whose first call failed, the second call was
\* executed and the next model call was issued.
C11_Witness ==
    /\ pc = "chat"
    /\ model_calls = 2
    /\ Len(tool_calls) = 2
    /\ Len(tool_results) = 2
    /\ HasPrefix(tool_results[1], FailedHeader(tool_calls[1].name))
    /\ Find(current_message, FailedHeader(tool_calls[1].name)).some

\* "Tool <name> ": how the encoding of a result of the call starts
ResultHeader(name) == <<"T","o","o","l"," ">> \o name \o <<" ">>

\* the results collected so far are those of the first calls of the batch,
\* one per call and in the order of the batch
ResultsFollowBatch ==
    /\ Len(tool_results) <= Len(tool_calls)
    /\ \A i \in 1..Len(tool_results) :
          HasPrefix(tool_results[i], ResultHeader(tool_calls[i].name))

\* C12: within a batch every parsed call is executed exactly once, one at a
\* time and in the order of the parser: while the batch runs the calls
\* before next_call, and only they, have a result; each step executes the
\* call at next_call and moves on by one; a model call starts only from the
\* top of the loop, when every call of the batch has its result, and never
\* while an execution is in flight.
C12_BatchSequentialInOrder ==
    /\ [](pc = "exec" =>
            /\ next_call \in 1..Len(tool_calls)
            /\ Len(tool_results) = next_call - 1
            /\ ResultsFollowBatch)
    /\ []((pc \in {"loop", "chat"} /\ iteration > 0) =>
            /\ Len(tool_results) = Len(tool_calls)
            /\ ResultsFollowBatch)
    /\ [][
          /\ pc = "exec" =>
                /\ executed'.v.call = tool_calls[next_call]
                /\ SubSeq(tool_results', 1, Len(tool_results)) = tool_results
                /\ Len(tool_results') = Len(tool_results) + 1
                /\ exec_count' <= exec_count + 1
                /\ model_calls' = model_calls
                /\ tool_calls' = tool_calls
                /\ IF next_call < Len(tool_calls)
                   THEN pc' = "exec" /\ next_call' = next_call + 1
                   ELSE pc' = "loop" /\ iteration' = iteration + 1
          /\ pc' = "chat" => (pc = "loop" /\ model_calls' = model_calls + 1)
          /\ pc' = "exec" => (pc \in {"chat", "exec"} /\ model_calls' = model_calls)
       ]_vars

\* A batch of two calls with different names was executed to its end.
C12_Witness ==
    /\ pc = "loop"
    /\ Len(tool_calls) = 2
    /\ tool_calls[1].name # tool_calls[2].name
    /\ Len(tool_results) = 2
    /\ executed.some
    /\ executed.v.call = tool_calls[2]

\* C13: the prompt of every model call after the first is
\* "Previous message: <original message>\n\nTool execution results:\n
\* <encodings of the latest batch joined by a blank line>\n\nPlease continue
\* based on these tool results.", a function of the original message and
\* of the latest batch only; the prompt of the first call is the original
\* message.
C13_PromptFromOriginalAndLatestBatch ==
    /\ (pc \in {"loop", "chat"} /\ iteration = 0) => current_message = message
    /\ (pc \in {"loop", "chat"} /\ iteration > 0) =>
          /\ Len(tool_results) = Len(tool_calls)
          /\ ResultsFollowBatch
    /\ (pc \in {"loop", "chat"} /\ iteration > 0) =>
          current_message =
              <<"P","r","e","v","i","o","u","s"," ","m","e","s","s","a","g","e",":"," ">>
              \o message
              \o <<"\n","\n","T","o","o","l"," ","e","x","e","c","u","t","i","o","n"," ",
                   "r","e","s","u","l","t","s",":","\n">>
              \o Join(tool_results, <<"\n","\n">>)
              \o <<"\n","\n","P","l","e","a","s","e"," ","c","o","n","t","i","n","u","e"," ",
                   "b","a","s","e","d"," ","o","n"," ","t","h","e","s","e"," ","t","o","o","l"," ",
                   "r","e","s","u","l","t","s",".">>

\* The third model call was issued, after a second batch of two calls.
C13_Witness ==
    /\ pc = "chat"
    /\ model_calls = 3
    /\ iteration = 2
    /\ Len(tool_results) = 2
    /\ Find(current_message, tool_results[2]).some

\* C14: when the run ends because the cap is reached, the last permitted
\* response having held tool calls, it returns success with the empty
\* string: neither a response text nor a tool result text is returned and
\* the cap is not reported as an error.
C14_CapReturnsEmptyAnswer ==
    /\ (pc = "loop" /\ iteration >= MAX_TOOL_ITERATIONS) =>
          (retval = None /\ full_response = <<>> /\ tool_calls # <<>>)
    /\ (pc = "done" /\ iteration >= MAX_TOOL_ITERATIONS) =>
          /\ retval = Some([ok |-> TRUE, v |-> <<>>])
          /\ response.ok
          /\ response.v # <<>>
          /\ tool_results # <<>>

\* A run returned at the cap after ten batches.
C14_Witness ==
    /\ pc = "done"
    /\ iteration = MAX_TOOL_ITERATIONS
    /\ retval = Some([ok |-> TRUE, v |-> <<>>])
    /\ Len(tool_calls) = 2

\* C15: every ToolCall produced by parse_tool_calls has a non-empty name.
C15_CallNamesNonEmpty ==
    stage = "done" => \A i \in 1..Len(ret.calls) : ret.calls[i].name # <<>>

\* the ToolResult invariant: when success is true, error is absent
SuccessHasNoError(result) == result.success => result.error = [some |-> FALSE]

\* C16 as stated: every ToolResult returned by execute_tool_call, for any
\* registry and any behaviour of the tool, has no error when success is true.
C16_ResultInvariantAlways ==
    stage = "done" => SuccessHasNoError(ret.out.result)

\* C16 amended: a ToolResult that execute_tool_call builds itself (no tool
\* of that name, or the tool's execute failed) has success false, an empty
\* output and an error; a result that the tool returned satisfies the
\* invariant whenever the tool's own result does.
C16_ResultInvariantUnlessToolBreaksIt ==
    stage = "done" =>
        /\ (~ret.outcome.some \/ ~ret.outcome.v.ok) =>
              /\ ~ret.out.result.success
              /\ ret.out.result.output = <<>>
              /\ ret.out.result.error.some
              /\ SuccessHasNoError(ret.out.result)
        /\ (ret.outcome.some /\ ret.outcome.v.ok
               /\ SuccessHasNoError(ret.outcome.v.v)) =>
              SuccessHasNoError(ret.out.result)

\* The tool that was found returned a successful result without an error,
\* and that result was returned.
C16_Witness ==
    /\ stage = "done"
    /\ ret.outcome.some
    /\ ret.outcome.v.ok
    /\ ret.outcome.v.v.success
    /\ ret.outcome.v.v.error = [some |-> FALSE]
    /\ ret.out.result.success
    /\ ret.out.invoked = 2

\* the string held by an optional field, None when absent or no string
StringOf(field) ==
    IF field.some /\ field.v.t = "str" THEN [some |-> TRUE, v |-> field.v.s]
    ELSE [some |-> FALSE]

\* the first of the given optional fields that is present, the empty map
\* when none is
FirstPresent(fields) ==
    LET present == {i \in 1..Len(fields) : fields[i].some}
    IN  IF present = {} THEN [t |-> "obj", m |-> [k \in {} |-> [t |-> "null"]]]
        ELSE fields[CHOOSE i \in present : \A j \in present : i <= j].v

\* the name of the "function" object of x, when it is a string
FunctionName(x) ==
    IF x.function.some /\ x.function.v.t = "obj"
       /\ K_name \in DOMAIN x.function.v.m
    THEN StringOf([some |-> TRUE, v |-> x.function.v.m[K_name]])
    ELSE [some |-> FALSE]

FunctionArguments(x) ==
    IF K_arguments \in DOMAIN x.function.v.m
    THEN x.function.v.m[K_arguments]
    ELSE [t |-> "obj", m |-> [k \in {} |-> [t |-> "null"]]]

\* the field the generic style takes the name from: name, otherwise tool
GenericNameField(x) == IF x.name.some THEN x.name ELSE x.tool

\* the call the generic style reads from x
GenericCall(x) ==
    [name      |-> StringOf(GenericNameField(x)).v,
     arguments |-> FirstPresent(<<x.arguments, x.args, x.input, x.params>>)]

\* what the three shapes, in priority order, read from x; None when x
\* matches no shape
HighestPriorityShape(x) ==
    IF FunctionName(x).some
    THEN [some |-> TRUE,
          v |-> [name |-> FunctionName(x).v, arguments |-> FunctionArguments(x)]]
    ELSE IF x.type = [some |-> TRUE, v |-> [t |-> "str", s |-> K_tool_use]]
            /\ StringOf(x.name).some
    THEN [some |-> TRUE,
          v |-> [name |-> StringOf(x.name).v,
                 arguments |-> FirstPresent(<<x.input>>)]]
    ELSE IF StringOf(GenericNameField(x)).some
    THEN [some |-> TRUE, v |-> GenericCall(x)]
    ELSE [some |-> FALSE]

\* C17: extraction of a value yields the call of the highest-priority shape
\* the value matches (function-style, tool-use style, generic) and skips it
\* only when it matches none; a value whose "function" field or tool_use
\* type comes without a string name is still read as a generic-style call.
C17_HighestMatchingShapeExtracted ==
    stage = "done" => ret = HighestPriorityShape(arg)

\* C18: for a generic-style value the name is the "name" field when present
\* and otherwise the "tool" field, and the arguments are the first field
\* present among arguments, args, input, params, or the empty map.
C18_GenericFieldPriority ==
    (/\ stage = "done"
     /\ ~arg.function.some
     /\ arg.type # [some |-> TRUE, v |-> [t |-> "str", s |-> K_tool_use]]
     /\ StringOf(GenericNameField(arg)).some) =>
        /\ ret = [some |-> TRUE, v |-> GenericCall(arg)]
        /\ arg.name.some => ret.v.name = arg.name.v.s
        /\ (~arg.name.some) => ret.v.name = arg.tool.v.s

\* A value with both name fields and with args, input and params but
\* without arguments was extracted.
C18_Witness ==
    /\ stage = "done"
    /\ ~arg.function.some
    /\ ~arg.type.some
    /\ arg.name = [some |-> TRUE, v |-> [t |-> "str", s |-> <<"n">>]]
    /\ arg.tool.some
    /\ ~arg.arguments.some
    /\ arg.args.some /\ arg.input.some /\ arg.params.some
    /\ ret.some
    /\ ret.v.name = <<"n">>
    /\ ret.v.arguments = arg.args.v

\* the group that took part in the match, among the given ones
MatchedGroup(groups, which) ==
    groups[CHOOSE i \in which : groups[i].some].v

RECURSIVE InlineCalls(_, _)
\* one call per match of identifier(argument-text) whose argument text is
\* a structured value, in text order, for the three argument forms
InlineCalls(caps, i) ==
    IF i > Len(caps) THEN <<>>
    ELSE LET name == MatchedGroup(caps[i], {1, 3, 5})
             args == from_str(MatchedGroup(caps[i], {2, 4, 6}))
         IN  (IF args.some THEN <<[name |-> name, arguments |-> args.v]>>
              ELSE <<>>)
             \o InlineCalls(caps, i + 1)

\* C19: when no earlier strategy yields a call, the inline strategy emits,
\* in text order, one call per match of identifier(argument-text), for the
\* brace, bracket and parenthesized forms, whenever the argument text is a
\* structured value; a match whose argument text is none is skipped on its
\* own and removes no call of another match.
C19_InlineCallPerParsedMatch ==
    (/\ stage = "done"
     /\ ~ret.panic
     /\ FencedStrategy(arg, FenceToolCalls, 14).calls = <<>>
     /\ FencedStrategy(arg, FenceJson, 7).calls = <<>>
     /\ DirectStrategy(arg) = <<>>) =>
        ret.calls = InlineCalls(captures_iter(arg, 1), 1)

\* the positions of the registry that hold the name
PositionsOf(registry, name) == {i \in 1..Len(registry) : registry[i] = name}

\* C20: when the registry holds several tools with the name of the call,
\* execute_tool_call invokes only the first of them in registry order,
\* exactly once and with the arguments of the call; and no execution and no
\* step of a run changes the registry.
C20_FirstMatchOnlyRegistryUnchanged ==
    /\ [](executed.some =>
            IF PositionsOf(tools, executed.v.call.name) = {}
            THEN executed.v.tool = 0 /\ executed.v.passed = [some |-> FALSE]
            ELSE /\ executed.v.tool \in PositionsOf(tools, executed.v.call.name)
                 /\ \A j \in PositionsOf(tools, executed.v.call.name) :
                       executed.v.tool <= j
                 /\ executed.v.passed =
                       [some |-> TRUE, v |-> executed.v.call.arguments])
    /\ [][
          /\ tools' = tools
          /\ pc = "exec" =>
                exec_count' = exec_count +
                    (IF PositionsOf(tools, tool_calls[next_call].name) = {}
                     THEN 0 ELSE 1)
          /\ pc # "exec" => exec_count' = exec_count
       ]_vars

\* A call with arguments was executed against a registry that holds its
\* name twice.
C20_Witness ==
    /\ executed.some
    /\ Len(tools) = 2
    /\ PositionsOf(tools, executed.v.call.name) = {1, 2}
    /\ executed.v.tool = 1
    /\ executed.v.passed.some
    /\ executed.v.passed.v.t = "arr"
    /\ exec_count = 1

\* C21: every run terminates, whatever the model answers, when every model
\* call and every execution returns: it reaches Done or aborts with the
\* provider's error after at most 10 model calls, iteration never exceeds
\* the cap, and no model call is issued once iteration >= cap.
C21_RunTerminatesWithinCap ==
    /\ <>(pc \in {"done", "error"})
    /\ [](iteration <= MAX_TOOL_ITERATIONS /\ model_calls <= MAX_TOOL_ITERATIONS)
    /\ [](pc \in {"done", "error"} => retval.some)
    /\ [][model_calls' # model_calls =>
            (iteration < MAX_TOOL_ITERATIONS /\ model_calls' = model_calls + 1)]_vars

\* the prompt holds the encodings of the whole batch, joined by a blank
\* line
BatchInPrompt ==
    /\ Len(tool_results) = Len(tool_calls)
    /\ Find(current_message, Join(tool_results, <<"\n","\n">>)).some

\* C22: every executed batch has its encoded results in the prompt of the
\* next model call, which below the cap is the next step of the run; the
\* batch of the 10th response is executed in full, its executions counted,
\* but after it no model call is issued and the run returns the empty
\* answer, so its results reach neither the model nor the caller.
C22_ResultsDeliveredExceptLastBatch ==
    /\ []((pc = "chat" /\ model_calls > 1) => BatchInPrompt)
    /\ []((pc = "loop" /\ iteration \in 1..(MAX_TOOL_ITERATIONS - 1)) =>
            (BatchInPrompt /\ ENABLED Request))
    /\ [](iteration = MAX_TOOL_ITERATIONS =>
            /\ pc \in {"loop", "done"}
            /\ model_calls = MAX_TOOL_ITERATIONS
            /\ Len(tool_results) = Len(tool_calls)
            /\ tool_results # <<>>
            /\ ~ENABLED Request
            /\ pc = "done" => retval = [some |-> TRUE, v |-> [ok |-> TRUE, v |-> <<>>]])
    /\ [][
          /\ (pc = "loop" /\ iteration < MAX_TOOL_ITERATIONS) =>
                (pc' = "chat" /\ current_message' = current_message)
          /\ iteration = MAX_TOOL_ITERATIONS =>
                (pc' = "done" /\ model_calls' = model_calls)
          /\ (pc = "exec" /\ iteration = MAX_TOOL_ITERATIONS - 1) =>
                exec_count' = exec_count +
                    (IF \E i \in 1..Len(tools) : tools[i] = tool_calls[next_call].name
                     THEN 1 ELSE 0)
       ]_vars

\* A run ended at the cap after executing both calls of each of its ten
\* batches.
C22_Witness ==
    /\ pc = "done"
    /\ iteration = MAX_TOOL_ITERATIONS
    /\ exec_count = 2 * MAX_TOOL_ITERATIONS
    /\ Len(tool_results) = 2
    /\ retval.some
    /\ retval.v.v = <<>>

\* the request line has at least two tokens and its path starts with
\* "/callback?"
IsCallbackRequest(x) ==
    /\ x.form \in {"full", "short"}
    /\ x.prefix = <<"/","c","a","l","l","b","a","c","k","?">>

\* the positions of the query that hold a parameter of that key with a
\* value
ParamPositions(x, key) ==
    {i \in 1..Len(x.pairs) : x.pairs[i].k = key /\ x.pairs[i].v.some}

\* the value of the parameter of that key (of the last one when repeated)
ParamValue(x, key) ==
    x.pairs[CHOOSE i \in ParamPositions(x, key) :
               \A j \in ParamPositions(x, key) : j <= i].v.v

\* the request is one that carries a code to a callback path
CarriesCode(x) ==
    IsCallbackRequest(x) /\ ParamPositions(x, <<"c","o","d","e">>) # {}

\* the failures that come from the connection, not from the request
ConnectionFailures ==
    {[ok |-> FALSE, e |-> TxtBindFailed], [ok |-> FALSE, e |-> TxtAcceptFailed],
     [ok |-> FALSE, e |-> TxtIoError], [ok |-> FALSE, e |-> TxtTimedOut]}

\* C23: the callback handler serves exactly one connection and yields
\* credentials only for a request whose path starts with /callback? and
\* carries a code parameter (access_token that code, token_type "Bearer",
\* the configured provider; code wins over error); a request with error and
\* no code, with neither, with another path or with fewer than two tokens
\* fails with an error, and whenever authentication fails no success page
\* is written.
C23_CallbackYieldsCredentialsOnlyForCode ==
    /\ ret.accepted <= 1
    /\ (ret.path.some \/ ret.written) => ret.accepted = 1
    /\ stage = "returned" =>
          /\ ret.result.some
          /\ ret.result.v.ok =>
                /\ CarriesCode(arg)
                /\ ret.written
                /\ ret.result.v.v =
                      [access_token  |-> ParamValue(arg, <<"c","o","d","e">>),
                       refresh_token |-> [some |-> FALSE],
                       token_type    |-> <<"B","e","a","r","e","r">>,
                       expires_in    |-> [some |-> FALSE],
                       provider      |-> <<"q","w","e","n">>]
          /\ ~CarriesCode(arg) => ~ret.result.v.ok
          /\ ~ret.result.v.ok => ~ret.written
          /\ (CarriesCode(arg) /\ ~ret.result.v.ok) =>
                ret.result.v \in ConnectionFailures
          /\ (ret.accepted = 1 /\ ~ret.result.v.ok
                /\ ret.result.v \notin ConnectionFailures) => ~CarriesCode(arg)

\* A callback that carries both an error and a code yielded credentials.
C23_Witness ==
    /\ stage = "returned"
    /\ ret.result.some
    /\ ret.result.v.ok
    /\ ParamPositions(arg, <<"e","r","r","o","r">>) # {}
    /\ ParamPositions(arg, <<"c","o","d","e">>) # {}
    /\ ret.written
    /\ ret.accepted = 1

\* C24: a callback is accepted as credentials only if its state parameter
\* equals the state that this run put into the authorization URL; a
\* callback with a missing or different state is rejected.
C24_CallbackStateMustMatch ==
    (stage = "returned" /\ ret.result.some /\ ret.result.v.ok) =>
        /\ ParamPositions(arg, <<"s","t","a","t","e">>) # {}
        /\ ParamValue(arg, <<"s","t","a","t","e">>) = ret.state.v

\* The text of the first block of that label: from the line after the first
\* occurrence of the label to the first fence after it; None when there is
\* no such label, line or fence.
FirstBlock(r, label) ==
    LET found == Find(r, label)
    IN  IF ~found.some THEN [some |-> FALSE]
        ELSE LET nl    == Find(SliceFrom(r, found.v), <<"\n">>)
                 start == found.v + nl.v + 1
             IN  IF ~nl.some THEN [some |-> FALSE]
                 ELSE LET close == Find(SliceFrom(r, start), Fence)
                      IN  IF close.some
                          THEN [some |-> TRUE, v |-> Slice(r, start, start + close.v)]
                          ELSE [some |-> FALSE]

\* the calls of the first block of that label, none without such a block
FirstBlockCalls(r, label) ==
    IF FirstBlock(r, label).some THEN BlockCalls(FirstBlock(r, label).v) ELSE <<>>

\* the response after the first occurrence of the label
AfterFirstLabel(r, label) == SliceFrom(r, Find(r, label).v + Len(label))

\* C25: each fenced strategy examines only the first occurrence of its
\* label and the first closing fence after it.  When the first tool_calls
\* block yields a call the result is its calls; when it is unterminated, no
\* JSON or without a call, the strategy yields nothing, whatever later
\* tool_calls blocks hold, and the result is that of the json strategy on
\* its own first block, and after that of the direct and inline strategies.
C25_OnlyFirstBlockOfEachLabel ==
    (stage = "done" /\ ~ret.panic) =>
        ret.calls =
            FirstNonEmpty(<<FirstBlockCalls(arg, FenceToolCalls),
                            FirstBlockCalls(arg, FenceJson),
                            DirectStrategy(arg),
                            BracketedStrategy(arg)>>)

\* The first tool_calls block held no call, a later tool_calls block held
\* one, and nothing was returned.
C25_Witness ==
    /\ stage = "done"
    /\ FirstBlock(arg, FenceToolCalls).some
    /\ FirstBlockCalls(arg, FenceToolCalls) = <<>>
    /\ FirstBlockCalls(AfterFirstLabel(arg, FenceToolCalls), FenceToolCalls) # <<>>
    /\ ret = [panic |-> FALSE, calls |-> <<>>]

====
